---- MODULE Spec2Model ----
(***************************************************************************)
(* The networked key-value service of training/kv: a server that accepts   *)
(* connections, reads length-delimited frames, decodes each payload as a   *)
(* Request, dispatches it against one shared DashMap store and writes the  *)
(* encoded Response back (training/kv/src/server.rs, pb.rs).               *)
(***************************************************************************)
EXTENDS Integers, Sequences, FiniteSets, TLC

\* ------------------------------------------------------------------ bounds
\* Number of connections the accept loop hands to spawned handlers.
NumConns == 2
\* Number of distinct keys the clients use.
NumKeys == 2
\* Number of distinct byte values that fill a value.
NumBytes == 2
\* Length of a non-empty value, in bytes.
ValLen == 2
\* Requests one connection may have decoded (caps the counters).
MaxReqs == 2

\* ------------------------------------------------------- program constants
\* LengthDelimitedCodec::builder().length_field_length(2)
LengthFieldLen == 2
\* Response codes of Response::new / not_found / not_impl.
CodeOk == 0
CodeNotFound == 404
CodeNotImpl == 500

Conns == 1 .. NumConns
\* A key is a (one-byte, ASCII) string, a value a byte string; both are
\* sequences of bytes.
Keys == {<<k>> : k \in 1 .. NumKeys}
PutValues == {<<>>} \cup {[i \in 1 .. ValLen |-> b] : b \in 1 .. NumBytes}
Empty == <<>>

\* --------------------------------------------------------------- messages
\* Request { command: Option<Command> }, Command = Get{key} | Put{key,value}
\* | Del{key}.  One record shape for all: op "None" is the absent command.
NewGet(k) == [op |-> "Get", key |-> k, value |-> Empty]
NewDel(k) == [op |-> "Del", key |-> k, value |-> Empty]
NewPut(k, v) == [op |-> "Put", key |-> k, value |-> v]
NoCommand == [op |-> "None", key |-> Empty, value |-> Empty]

\* not_found that leaves the key to Default::default().
ResponseNotFoundNoKey(k) == [code |-> 404, key |-> <<>>, value |-> <<>>]

\* Response::new that leaves the key at its default.
ResponseNewNoKey(k, v) == [code |-> 0, key |-> Empty, value |-> v]

\* Response::new, Response::not_found, Response::not_impl.
ResponseNew(k, v) == [code |-> CodeOk, key |-> k, value |-> v]
ResponseNotFound(k) == [code |-> CodeNotFound, key |-> k, value |-> Empty]
ResponseNotImpl == [code |-> CodeNotImpl, key |-> Empty, value |-> Empty]
\* Response::default(), the value a handler holds before it has dispatched.
ResponseDefault == [code |-> CodeOk, key |-> Empty, value |-> Empty]

\* ------------------------------------------------------------ wire format
\* Protocol-Buffers encoding of the schema: a field is a tag byte
\* (number * 8 + wire type) followed by a varint (wire type 0) or by a varint
\* length and that many bytes (wire type 2).  Fields holding the default
\* value are not written, except the member of a oneof.
WtVarint == 0
WtLen == 2
Tag(num, wt) == num * 8 + wt

RECURSIVE EncVarint(_)
EncVarint(n) ==
    IF n < 128 THEN <<n>> ELSE <<128 + (n % 128)>> \o EncVarint(n \div 128)

LenDelimited(num, bytes) ==
    EncVarint(Tag(num, WtLen)) \o EncVarint(Len(bytes)) \o bytes

\* A string or bytes field, omitted when empty.
OptBytes(num, bytes) == IF bytes = Empty THEN <<>> ELSE LenDelimited(num, bytes)

\* Request: oneof command { get = 1; put = 2; del = 3 }.
\* RequestGet { key = 1 }, RequestPut { key = 1; value = 2 }, RequestDel { key = 1 }.
EncodeRequest(r) ==
    CASE r.op = "Get" -> LenDelimited(1, OptBytes(1, r.key))
      [] r.op = "Put" -> LenDelimited(2, OptBytes(1, r.key) \o OptBytes(2, r.value))
      [] r.op = "Del" -> LenDelimited(3, OptBytes(1, r.key))
      [] OTHER -> <<>>

\* Response { code = 1; key = 2; value = 3 }.
EncodeResponse(m) ==
    (IF m.code = 0 THEN <<>> ELSE EncVarint(Tag(1, WtVarint)) \o EncVarint(m.code))
    \o OptBytes(2, m.key) \o OptBytes(3, m.value)

\* A varint read at position i of b: shift is 128^(bytes read so far).  The
\* payloads of the model hold varints of at most three bytes.
VarintFail == [ok |-> FALSE, val |-> 0, next |-> 0]
RECURSIVE VarintAt(_, _, _, _)
VarintAt(b, i, shift, acc) ==
    IF i > Len(b) \/ shift > 128 * 128 THEN VarintFail
    ELSE IF b[i] < 128 THEN [ok |-> TRUE, val |-> acc + b[i] * shift, next |-> i + 1]
    ELSE VarintAt(b, i + 1, shift * 128, acc + (b[i] - 128) * shift)

\* The fields of a message body, in wire order, or a failure: a truncated
\* varint, field number 0, a length running past the buffer, a wire type
\* that is none of varint, 64-bit, length-delimited, 32-bit.
FieldsFail == [ok |-> FALSE, fs |-> <<>>]
FixedWidth(wt) == IF wt = 1 THEN 8 ELSE 4
RECURSIVE FieldsFrom(_, _)
FieldsFrom(b, i) ==
    IF i > Len(b) THEN [ok |-> TRUE, fs |-> <<>>]
    ELSE LET t == VarintAt(b, i, 1, 0)
             num == t.val \div 8
             wt == t.val % 8
             v == VarintAt(b, t.next, 1, 0)
             rest(j, f) == LET r == FieldsFrom(b, j)
                           IN  IF r.ok THEN [ok |-> TRUE, fs |-> <<f>> \o r.fs]
                               ELSE FieldsFail
         IN  IF ~t.ok \/ num = 0 THEN FieldsFail
             ELSE IF wt = WtVarint THEN
                 IF ~v.ok THEN FieldsFail
                 ELSE rest(v.next, [num |-> num, wt |-> wt, int |-> v.val, bytes |-> Empty])
             ELSE IF wt = WtLen THEN
                 IF ~v.ok \/ v.next + v.val - 1 > Len(b) THEN FieldsFail
                 ELSE rest(v.next + v.val,
                           [num |-> num, wt |-> wt, int |-> 0,
                            bytes |-> SubSeq(b, v.next, v.next + v.val - 1)])
             ELSE IF wt = 1 \/ wt = 5 THEN
                 IF t.next + FixedWidth(wt) - 1 > Len(b) THEN FieldsFail
                 ELSE rest(t.next + FixedWidth(wt),
                           [num |-> num, wt |-> wt, int |-> 0, bytes |-> Empty])
             ELSE FieldsFail

\* A string field must hold UTF-8.  The keys of the model are ASCII, and the
\* one other byte its inputs put in a key is 255, which no UTF-8 string holds.
IsUtf8(bytes) == \A i \in 1 .. Len(bytes) : bytes[i] < 128

\* Merging the fields of a RequestGet / RequestPut / RequestDel body into a
\* command: field 1 is the key (a string), field 2 of a Put the value; a
\* known field with another wire type is an error, an unknown field is skipped.
DecodeFail == [ok |-> FALSE, req |-> NoCommand]
RECURSIVE MergeCommand(_, _, _)
MergeCommand(cmd, fs, i) ==
    IF i > Len(fs) THEN [ok |-> TRUE, req |-> cmd]
    ELSE LET f == fs[i]
         IN  IF f.num = 1 THEN
                 IF f.wt # WtLen \/ ~IsUtf8(f.bytes) THEN DecodeFail
                 ELSE MergeCommand([cmd EXCEPT !.key = f.bytes], fs, i + 1)
             ELSE IF f.num = 2 /\ cmd.op = "Put" THEN
                 IF f.wt # WtLen THEN DecodeFail
                 ELSE MergeCommand([cmd EXCEPT !.value = f.bytes], fs, i + 1)
             ELSE MergeCommand(cmd, fs, i + 1)

OpOfField(num) == IF num = 1 THEN "Get" ELSE IF num = 2 THEN "Put" ELSE "Del"

\* Merging the fields of a Request: fields 1..3 select the command; a field
\* of the variant already set merges into it, another variant replaces it.
RECURSIVE MergeRequest(_, _, _)
MergeRequest(acc, fs, i) ==
    IF i > Len(fs) THEN [ok |-> TRUE, req |-> acc]
    ELSE LET f == fs[i]
             body == FieldsFrom(f.bytes, 1)
             start == IF acc.op = OpOfField(f.num) THEN acc
                      ELSE [op |-> OpOfField(f.num), key |-> Empty, value |-> Empty]
             cmd == MergeCommand(start, body.fs, 1)
         IN  IF f.num \in 1 .. 3 THEN
                 IF f.wt # WtLen \/ ~body.ok \/ ~cmd.ok THEN DecodeFail
                 ELSE MergeRequest(cmd.req, fs, i + 1)
             ELSE MergeRequest(acc, fs, i + 1)

\* impl TryFrom<BytesMut> for Request: Message::decode(buf).
DecodeRequest(buf) ==
    LET top == FieldsFrom(buf, 1)
    IN  IF ~top.ok THEN DecodeFail ELSE MergeRequest(NoCommand, top.fs, 1)

\* Merging the fields of a Response: code is a varint, key a string, value
\* bytes; the last occurrence of a field wins, unknown fields are skipped.
RespFail == [ok |-> FALSE, resp |-> ResponseDefault]
RECURSIVE MergeResponse(_, _, _)
MergeResponse(acc, fs, i) ==
    IF i > Len(fs) THEN [ok |-> TRUE, resp |-> acc]
    ELSE LET f == fs[i]
         IN  IF f.num = 1 THEN
                 IF f.wt # WtVarint THEN RespFail
                 ELSE MergeResponse([acc EXCEPT !.code = f.int], fs, i + 1)
             ELSE IF f.num = 2 THEN
                 IF f.wt # WtLen \/ ~IsUtf8(f.bytes) THEN RespFail
                 ELSE MergeResponse([acc EXCEPT !.key = f.bytes], fs, i + 1)
             ELSE IF f.num = 3 THEN
                 IF f.wt # WtLen THEN RespFail
                 ELSE MergeResponse([acc EXCEPT !.value = f.bytes], fs, i + 1)
             ELSE MergeResponse(acc, fs, i + 1)

\* impl TryFrom<BytesMut> for Response: Message::decode(buf).
DecodeResponse(buf) ==
    LET top == FieldsFrom(buf, 1)
    IN  IF ~top.ok THEN RespFail ELSE MergeResponse(ResponseDefault, top.fs, 1)

\* ----------------------------------------------------------------- framing
\* LengthDelimitedCodec with a 2-byte big-endian length field that counts the
\* payload only.
\* The length field written low byte first.
LittleEndian2(n) == <<n % 256, (n \div 256) % 256>>

BigEndian2(n) == <<(n \div 256) % 256, n % 256>>
FrameEncode(payload) == BigEndian2(Len(payload)) \o payload
HeadLen(b) == b[1] * 256 + b[2]

\* What stream.next() resolves to, given the bytes the socket delivers before
\* it resolves and how the stream continues ("more": the peer stays silent,
\* "eof": the peer closed, "reset": the socket failed): a complete frame is
\* returned first; an I/O error is Some(Err); when the stream ends, the
\* decoder has taken a complete length field out of its buffer, and the
\* result is None if the buffer is then empty (the stream ended between
\* frames, or right after a length field) and Some(Err) if bytes remain (a
\* part of a length field, or a part of a payload); otherwise the call stays
\* pending.  cut tells that the stream ended after a frame had begun, which
\* the decoder knows and None does not show.
FrameOutcome(w) ==
    IF Len(w.bytes) >= LengthFieldLen
       /\ Len(w.bytes) - LengthFieldLen >= HeadLen(w.bytes)
    THEN [tag |-> "Ok", cut |-> FALSE,
          buf |-> SubSeq(w.bytes, LengthFieldLen + 1, LengthFieldLen + HeadLen(w.bytes))]
    ELSE IF w.end = "reset"
         THEN [tag |-> "Err", cut |-> w.bytes # Empty, buf |-> Empty]
    ELSE IF w.end = "eof"
         THEN LET left == IF Len(w.bytes) >= LengthFieldLen
                          THEN Len(w.bytes) - LengthFieldLen
                          ELSE Len(w.bytes)
              IN  IF left = 0
                  THEN [tag |-> "None", cut |-> w.bytes # Empty, buf |-> Empty]
                  ELSE [tag |-> "Err", cut |-> TRUE, buf |-> Empty]
    ELSE [tag |-> "Pending", cut |-> FALSE, buf |-> Empty]

\* ------------------------------------------------------------------ inputs
Requests ==
    {NoCommand} \cup {NewGet(k) : k \in Keys} \cup {NewDel(k) : k \in Keys}
    \cup {NewPut(k, v) : k \in Keys, v \in PutValues}

\* Payloads that are no Request: a tag with nothing after it, a length
\* running past the buffer, field number 0, wire type 7, a key that is not
\* UTF-8, the get field with a varint wire type.
BadPayloads ==
    {<<10>>, <<10, 5, 10>>, <<0>>, <<15>>, <<10, 3, 10, 1, 255>>, <<8, 1>>}

\* Payloads no encoder of this repository writes but the decoder accepts: an
\* unknown field only, a Get of the empty key, a Get followed by a Del.
OddPayloads ==
    {<<32, 1>>, <<10, 0>>, EncodeRequest(NewGet(<<1>>)) \o EncodeRequest(NewDel(<<1>>))}

Payloads == {EncodeRequest(r) : r \in Requests} \cup BadPayloads \cup OddPayloads

WireInputs ==
    {[bytes |-> FrameEncode(p), end |-> "more"] : p \in Payloads}
    \cup {[bytes |-> Empty, end |-> "eof"],
          [bytes |-> Empty, end |-> "reset"],
          [bytes |-> <<0>>, end |-> "eof"],
          [bytes |-> <<0, 4>>, end |-> "eof"],
          [bytes |-> <<0, 4>>, end |-> "reset"],
          [bytes |-> <<0, 4, 10, 2>>, end |-> "eof"],
          [bytes |-> <<0, 4, 10, 2>>, end |-> "reset"],
          [bytes |-> <<0, 4, 10, 2>>, end |-> "more"]}

\* The keys and the requests of the client: "hello" and "world" in ASCII;
\* put hello/world, get hello, get world, del hello.
Hello == <<104, 101, 108, 108, 111>>
World == <<119, 111, 114, 108, 100>>
Script ==
    <<NewPut(Hello, World), NewGet(Hello), NewGet(World), NewDel(Hello)>>

\* Every key a decoded request may name.
AllKeys == Keys \cup {Empty, Hello, World}

\* ------------------------------------------------------------------- state
VARIABLES
    store,    \* ServerState.store: the DashMap, a function on the keys present
    st,       \* per connection: where its handler task is
    req,      \* per connection: the Request the handler decoded last (msg)
    resp,     \* per connection: the Response the handler computed last
    copied,   \* per connection: the bytes to_vec() has copied under the Ref
    nreq,     \* per connection: requests decoded so far
    nresp,    \* per connection: responses fully written so far
    ended,    \* per connection: why the handler left its loop, "none" before
    lastOp,   \* history, per key: the latest Put or Del dispatched on it
    everPut,  \* history, per key: the values of all Puts dispatched on it
    ref,      \* per connection: the keys it holds a Ref (read guard) on
    peer,     \* per connection: "up", or "gone" once the peer has disconnected
    buffered, \* per connection: whole frames received before the peer went
    cmsg,     \* wire round trip: the message to send
    cbytes,   \* wire round trip: its bytes, as payload and as frame
    cback,    \* wire round trip: the message decoded at the other end
    cpc,      \* wire round trip: the step reached
    actorState,   \* Actor.state
    mailbox,      \* the mpsc channel between the Pids and Actor.receiver
    handling,     \* the ActorMessage the actor task took from the channel
    callerPc,     \* per caller of Pid::send: where the call is
    callerReply,  \* per caller: what its last Pid::send returned
    callsMade,    \* per caller: calls started so far
    sentOrder,    \* history: the calls in the order they entered the channel
    handledLog,   \* history: the calls handled, with data and reply, in order
    total,              \* Meseum::new(total)
    remaining_tickets,  \* Meseum.remaining_tickets: the semaphore's permits
    liveTickets,        \* Tickets handed out and not yet dropped
    lastTicket,         \* what the last get_ticket returned
    mainPc,      \* main of the server: "accepting", or "returned" with the error
    clientPc,    \* main of the client: where it is
    clientSent,  \* client: requests sent so far
    clientGot,   \* client: the responses it has read, in order
    upstream,    \* the client's socket: frames sent and not yet read by the server
    downstream,  \* the client's socket: frames the server wrote, not yet read
    link         \* the client's socket: "open", or "broken" by a failure

kvVars ==
    <<store, st, req, resp, copied, nreq, nresp, ended, lastOp, everPut, ref>>
peerVars == <<peer, buffered>>
codecVars == <<cmsg, cbytes, cback, cpc>>
actorVars ==
    <<actorState, mailbox, handling, callerPc, callerReply, callsMade,
      sentOrder, handledLog>>
ticketVars == <<total, remaining_tickets, liveTickets, lastTicket>>
mainVars == <<mainPc>>
clientVars == <<clientPc, clientSent, clientGot, upstream, downstream, link>>
vars ==
    <<kvVars, peerVars, codecVars, actorVars, ticketVars, mainVars, clientVars>>
\* What a step of the key-value server leaves alone.
others == <<peerVars, codecVars, actorVars, ticketVars, mainVars, clientVars>>

NoOp == [op |-> "none", value |-> Empty]

KvInit ==
    /\ store = <<>>
    /\ st = [c \in Conns |-> "Idle"]
    /\ req = [c \in Conns |-> NoCommand]
    /\ resp = [c \in Conns |-> ResponseDefault]
    /\ copied = [c \in Conns |-> Empty]
    /\ nreq = [c \in Conns |-> 0]
    /\ nresp = [c \in Conns |-> 0]
    /\ ended = [c \in Conns |-> "none"]
    /\ lastOp = [k \in AllKeys |-> NoOp]
    /\ everPut = [k \in AllKeys |-> {}]
    /\ ref = [c \in Conns |-> {}]

\* Every peer is connected and nothing is buffered.
PeerInit ==
    /\ peer = [c \in Conns |-> "up"]
    /\ buffered = [c \in Conns |-> 0]

\* The parts of the state that belong to the other programs of the
\* repository, at rest: no wire round trip, no actor, no Meseum.
NoMessage == [kind |-> "none", code |-> 0, op |-> "None", key |-> Empty, value |-> Empty]
CodecIdle ==
    /\ cmsg = NoMessage
    /\ cbytes = Empty
    /\ cback = NoMessage
    /\ cpc = "off"

NoCall == [from |-> 0, data |-> ""]
ActorIdle ==
    /\ actorState = 0
    /\ mailbox = <<>>
    /\ handling = NoCall
    /\ callerPc = <<>>
    /\ callerReply = <<>>
    /\ callsMade = <<>>
    /\ sentOrder = <<>>
    /\ handledLog = <<>>

TicketIdle ==
    /\ total = 0
    /\ remaining_tickets = 0
    /\ liveTickets = 0
    /\ lastTicket = "off"

\* The server after ServerState::new() and bind, before any accept.
\* main is in its accept loop.
MainInit == mainPc = "accepting"

\* No client of client.rs has been started.
ClientIdle ==
    /\ clientPc = "off"
    /\ clientSent = 0
    /\ clientGot = <<>>
    /\ upstream = <<>>
    /\ downstream = <<>>
    /\ link = "open"

Init ==
    /\ KvInit /\ PeerInit /\ CodecIdle /\ ActorIdle /\ TicketIdle
    /\ MainInit /\ ClientIdle

\* insert that leaves the map with the one entry it wrote.
InsertClobber(m, k, v) == [x \in {k} |-> v]

\* DashMap operations on the function that models the map.
Contains(m, k) == k \in DOMAIN m
Insert(m, k, v) == [x \in DOMAIN m \cup {k} |-> IF x = k THEN v ELSE m[x]]
Remove(m, k) == [x \in DOMAIN m \ {k} |-> m[x]]

\* A Ref returned by store.get(&key) holds the read lock of the key's shard
\* until it is dropped; insert and remove take the write lock.  The model
\* locks per key.
RefHeld(c, k) == k \in ref[c]

\* The write lock granted only when no handler that read the key is still
\* sending its response (a Ref kept across stream.send).
WriteLockFreeOfSenders(k) ==
    \A d \in Conns :
        ~(st[d] \in {"Copying", "Writing"} /\ req[d].op = "Get" /\ req[d].key = k)

\* insert and remove wait until no Ref on the key is held.
WriteLockFree(k) == \A d \in Conns : ~RefHeld(d, k)

\* ----------------------------------------------------------------- actions
\* listener.accept() returns a socket and main spawns its handler task,
\* which starts by waiting for a frame.
Accept(c) ==
    /\ st[c] = "Idle"
    /\ st' = [st EXCEPT ![c] = "Reading"]
    /\ UNCHANGED <<store, req, resp, copied, nreq, nresp, ended, lastOp, everPut>>
    /\ UNCHANGED ref
    /\ UNCHANGED others

\* `let msg: Request = buf.try_into()?` succeeded: the loop body runs on msg.
FrameTaken(c, msg) ==
    /\ nreq[c] < MaxReqs
    /\ st' = [st EXCEPT ![c] = "Dispatching"]
    /\ req' = [req EXCEPT ![c] = msg]
    /\ nreq' = [nreq EXCEPT ![c] = @ + 1]
    /\ UNCHANGED ended

\* Why the task ends on a frame outcome that yields no msg: Some(Ok(buf))
\* whose try_into() fails, Some(Err(_)), None; a None that cut a frame short
\* is told from a None between frames.
EndOf(out) ==
    IF out.tag = "Ok" THEN "decode_err"
    ELSE IF out.tag = "Err" THEN "frame_err"
    ELSE IF out.cut THEN "eof_cut"
    ELSE "eof"

\* The loop is left (None, Some(Err)) or `?` returns the decode error: the
\* task is over and its stream dropped.
LoopLeft(c, out) ==
    /\ st' = [st EXCEPT ![c] = "Closed"]
    /\ ended' = [ended EXCEPT ![c] = EndOf(out)]
    /\ UNCHANGED <<req, nreq>>

\* ReadFrame with the next frame read while a response is still being sent.
ReadFramePipelined(c) ==
    /\ st[c] \in {"Reading", "Writing"}
    /\ \E w \in WireInputs :
         LET out == FrameOutcome(w)
             msg == DecodeRequest(out.buf)
         IN  /\ out.tag # "Pending"
             /\ IF out.tag = "Ok" /\ msg.ok THEN FrameTaken(c, msg.req)
                ELSE LoopLeft(c, out)
    /\ UNCHANGED <<store, resp, copied, nresp, lastOp, everPut>>
    /\ UNCHANGED ref
    /\ UNCHANGED others

\* ReadFrame with a payload that does not decode logged and skipped.
ReadFrameSkipsBad(c) ==
    /\ st[c] = "Reading"
    /\ \E w \in WireInputs :
         LET out == FrameOutcome(w)
             msg == DecodeRequest(out.buf)
         IN  /\ out.tag # "Pending"
             /\ IF out.tag = "Ok" /\ msg.ok THEN FrameTaken(c, msg.req)
                ELSE IF out.tag = "Ok"
                THEN /\ ended' = [ended EXCEPT ![c] = EndOf(out)]
                     /\ UNCHANGED <<st, req, nreq>>
                ELSE LoopLeft(c, out)
    /\ UNCHANGED <<store, resp, copied, nresp, lastOp, everPut>>
    /\ UNCHANGED ref
    /\ UNCHANGED others

\* ReadFrame with the handler run in the accept loop itself, so that its `?`
\* returns from main and ends every task.
ReadFrameInline(c) ==
    /\ st[c] = "Reading"
    /\ \E w \in WireInputs :
         LET out == FrameOutcome(w)
             msg == DecodeRequest(out.buf)
         IN  /\ out.tag # "Pending"
             /\ IF out.tag = "Ok" /\ msg.ok THEN FrameTaken(c, msg.req)
                ELSE IF out.tag = "Ok"
                THEN /\ st' = [d \in Conns |-> IF st[d] = "Idle" THEN "Idle" ELSE "Closed"]
                     /\ ended' = [ended EXCEPT ![c] = EndOf(out)]
                     /\ UNCHANGED <<req, nreq>>
                ELSE LoopLeft(c, out)
    /\ UNCHANGED <<store, resp, copied, nresp, lastOp, everPut>>
    /\ UNCHANGED ref
    /\ UNCHANGED others

\* One evaluation of `while let Some(Ok(buf)) = stream.next().await` and of
\* `buf.try_into()?`: a frame that decodes makes msg; None and Some(Err) end
\* the loop; a frame that does not decode returns the error from the task.
ReadFrame(c) ==
    /\ st[c] = "Reading"
    /\ \E w \in WireInputs :
         LET out == FrameOutcome(w)
             msg == DecodeRequest(out.buf)
         IN  /\ out.tag # "Pending"
             /\ IF out.tag = "Ok" /\ msg.ok THEN FrameTaken(c, msg.req)
                ELSE LoopLeft(c, out)
    /\ UNCHANGED <<store, resp, copied, nresp, lastOp, everPut>>
    /\ UNCHANGED ref
    /\ UNCHANGED others

\* GetLookup that leaves an empty value under a key it did not find
\* (entry(key).or_default()).
GetLookupInserts(c) ==
    /\ st[c] = "Dispatching"
    /\ req[c].op = "Get"
    /\ IF Contains(store, req[c].key)
       THEN /\ st' = [st EXCEPT ![c] = "Copying"]
            /\ ref' = [ref EXCEPT ![c] = {req[c].key}]
            /\ copied' = [copied EXCEPT ![c] = Empty]
            /\ UNCHANGED <<resp, store>>
       ELSE /\ st' = [st EXCEPT ![c] = "Writing"]
            /\ UNCHANGED ref
            /\ resp' = [resp EXCEPT ![c] = ResponseNotFound(req[c].key)]
            /\ store' = Insert(store, req[c].key, Empty)
            /\ UNCHANGED copied
    /\ UNCHANGED <<req, nreq, nresp, ended, lastOp, everPut>>
    /\ UNCHANGED others

\* Command::Get: shared.store.get(&key).  A miss answers not_found; a hit
\* returns a Ref, under which the value is copied next.
GetLookup(c) ==
    /\ st[c] = "Dispatching"
    /\ req[c].op = "Get"
    /\ IF Contains(store, req[c].key)
       THEN /\ st' = [st EXCEPT ![c] = "Copying"]
            /\ ref' = [ref EXCEPT ![c] = {req[c].key}]
            /\ copied' = [copied EXCEPT ![c] = Empty]
            /\ UNCHANGED resp
       ELSE /\ st' = [st EXCEPT ![c] = "Writing"]
            /\ UNCHANGED ref
            /\ resp' = [resp EXCEPT ![c] = ResponseNotFound(req[c].key)]
            /\ UNCHANGED copied
    /\ UNCHANGED <<store, req, nreq, nresp, ended, lastOp, everPut>>
    /\ UNCHANGED others

\* The value under the Ref, read in place (the map's entry, while the Ref
\* keeps it there).
Under(c) == IF Contains(store, req[c].key) THEN store[req[c].key] ELSE Empty

\* v.value().to_vec(): one byte of the copy.
CopyByte(c) ==
    /\ st[c] = "Copying"
    /\ Len(copied[c]) < Len(Under(c))
    /\ copied' = [copied EXCEPT ![c] = Append(@, Under(c)[Len(@) + 1])]
    /\ UNCHANGED <<store, st, req, resp, nreq, nresp, ended, lastOp, everPut>>
    /\ UNCHANGED ref
    /\ UNCHANGED others

\* GetHit with the Ref kept alive after the arm (bound outside the match),
\* so that it is still held when the response is sent.
GetHitKeepsRef(c) ==
    /\ st[c] = "Copying"
    /\ Len(copied[c]) >= Len(Under(c))
    /\ st' = [st EXCEPT ![c] = "Writing"]
    /\ resp' = [resp EXCEPT ![c] = ResponseNew(req[c].key, copied[c])]
    /\ copied' = [copied EXCEPT ![c] = Empty]
    /\ UNCHANGED <<store, req, nreq, nresp, ended, lastOp, everPut, ref>>
    /\ UNCHANGED others

\* Response::new(key, copy) at the end of the hit arm, where the Ref is dropped.
GetHit(c) ==
    /\ st[c] = "Copying"
    /\ Len(copied[c]) >= Len(Under(c))
    /\ st' = [st EXCEPT ![c] = "Writing"]
    /\ resp' = [resp EXCEPT ![c] = ResponseNew(req[c].key, copied[c])]
    /\ copied' = [copied EXCEPT ![c] = Empty]
    /\ ref' = [ref EXCEPT ![c] = {}]
    /\ UNCHANGED <<store, req, nreq, nresp, ended, lastOp, everPut>>
    /\ UNCHANGED others

\* Put that keeps the value of a key already present (entry().or_insert).
PutIfAbsent(c) ==
    /\ st[c] = "Dispatching"
    /\ req[c].op = "Put"
    /\ WriteLockFree(req[c].key)
    /\ store' = IF Contains(store, req[c].key) THEN store
                ELSE Insert(store, req[c].key, req[c].value)
    /\ resp' = [resp EXCEPT ![c] = ResponseNew(req[c].key, req[c].value)]
    /\ st' = [st EXCEPT ![c] = "Writing"]
    /\ lastOp' = [lastOp EXCEPT ![req[c].key] = [op |-> "put", value |-> req[c].value]]
    /\ everPut' = [everPut EXCEPT ![req[c].key] = @ \cup {req[c].value}]
    /\ UNCHANGED <<req, copied, nreq, nresp, ended>>
    /\ UNCHANGED ref
    /\ UNCHANGED others

\* Put on a map that takes no lock against the readers' Refs.
PutUnlocked(c) ==
    /\ st[c] = "Dispatching"
    /\ req[c].op = "Put"
    /\ store' = Insert(store, req[c].key, req[c].value)
    /\ resp' = [resp EXCEPT ![c] = ResponseNew(req[c].key, req[c].value)]
    /\ st' = [st EXCEPT ![c] = "Writing"]
    /\ lastOp' = [lastOp EXCEPT ![req[c].key] = [op |-> "put", value |-> req[c].value]]
    /\ everPut' = [everPut EXCEPT ![req[c].key] = @ \cup {req[c].value}]
    /\ UNCHANGED <<req, copied, nreq, nresp, ended>>
    /\ UNCHANGED ref
    /\ UNCHANGED others

\* Put that answers with what insert returns, the value it replaced.
PutAnswersOld(c) ==
    /\ st[c] = "Dispatching"
    /\ req[c].op = "Put"
    /\ WriteLockFree(req[c].key)
    /\ store' = Insert(store, req[c].key, req[c].value)
    /\ resp' = [resp EXCEPT ![c] =
                  ResponseNew(req[c].key,
                              IF Contains(store, req[c].key) THEN store[req[c].key]
                              ELSE req[c].value)]
    /\ st' = [st EXCEPT ![c] = "Writing"]
    /\ lastOp' = [lastOp EXCEPT ![req[c].key] = [op |-> "put", value |-> req[c].value]]
    /\ everPut' = [everPut EXCEPT ![req[c].key] = @ \cup {req[c].value}]
    /\ UNCHANGED <<req, copied, nreq, nresp, ended>>
    /\ UNCHANGED ref
    /\ UNCHANGED others

\* Put into a store of the connection's own (a ServerState made per accept),
\* which no other handler sees.
PutPrivate(c) ==
    /\ st[c] = "Dispatching"
    /\ req[c].op = "Put"
    /\ resp' = [resp EXCEPT ![c] = ResponseNew(req[c].key, req[c].value)]
    /\ st' = [st EXCEPT ![c] = "Writing"]
    /\ lastOp' = [lastOp EXCEPT ![req[c].key] = [op |-> "put", value |-> req[c].value]]
    /\ everPut' = [everPut EXCEPT ![req[c].key] = @ \cup {req[c].value}]
    /\ UNCHANGED <<store, req, copied, nreq, nresp, ended>>
    /\ UNCHANGED ref
    /\ UNCHANGED others

\* Command::Put: shared.store.insert(key.clone(), value.clone()), then
\* Response::new(key, value).
Put(c) ==
    /\ st[c] = "Dispatching"
    /\ req[c].op = "Put"
    /\ WriteLockFree(req[c].key)
    /\ store' = Insert(store, req[c].key, req[c].value)
    /\ resp' = [resp EXCEPT ![c] = ResponseNew(req[c].key, req[c].value)]
    /\ st' = [st EXCEPT ![c] = "Writing"]
    /\ lastOp' = [lastOp EXCEPT ![req[c].key] = [op |-> "put", value |-> req[c].value]]
    /\ everPut' = [everPut EXCEPT ![req[c].key] = @ \cup {req[c].value}]
    /\ UNCHANGED <<req, copied, nreq, nresp, ended>>
    /\ UNCHANGED ref
    /\ UNCHANGED others

\* Del that answers a hit without the value it removed.
DelDropsValue(c) ==
    /\ st[c] = "Dispatching"
    /\ req[c].op = "Del"
    /\ WriteLockFree(req[c].key)
    /\ IF Contains(store, req[c].key)
       THEN /\ resp' = [resp EXCEPT ![c] = ResponseNew(req[c].key, Empty)]
            /\ store' = Remove(store, req[c].key)
       ELSE /\ resp' = [resp EXCEPT ![c] = ResponseNotFound(req[c].key)]
            /\ UNCHANGED store
    /\ st' = [st EXCEPT ![c] = "Writing"]
    /\ lastOp' = [lastOp EXCEPT ![req[c].key] = [op |-> "del", value |-> Empty]]
    /\ UNCHANGED <<req, copied, nreq, nresp, ended, everPut>>
    /\ UNCHANGED ref
    /\ UNCHANGED others

\* Del that looks the key up (get) where it should remove it.
DelKeeps(c) ==
    /\ st[c] = "Dispatching"
    /\ req[c].op = "Del"
    /\ WriteLockFree(req[c].key)
    /\ IF Contains(store, req[c].key)
       THEN resp' = [resp EXCEPT ![c] = ResponseNew(req[c].key, store[req[c].key])]
       ELSE resp' = [resp EXCEPT ![c] = ResponseNotFound(req[c].key)]
    /\ UNCHANGED store
    /\ st' = [st EXCEPT ![c] = "Writing"]
    /\ lastOp' = [lastOp EXCEPT ![req[c].key] = [op |-> "del", value |-> Empty]]
    /\ UNCHANGED <<req, copied, nreq, nresp, ended, everPut>>
    /\ UNCHANGED ref
    /\ UNCHANGED others

\* Del as a read followed by a separate removal: the value is answered, and
\* the entry is left to another handler that is dispatching a Del of the key.
DelTwoWinners(c) ==
    /\ st[c] = "Dispatching"
    /\ req[c].op = "Del"
    /\ WriteLockFree(req[c].key)
    /\ IF Contains(store, req[c].key)
       THEN /\ resp' = [resp EXCEPT ![c] = ResponseNew(req[c].key, store[req[c].key])]
            /\ store' = IF \E d \in Conns \ {c} :
                              st[d] = "Dispatching" /\ req[d] = req[c]
                        THEN store
                        ELSE Remove(store, req[c].key)
       ELSE /\ resp' = [resp EXCEPT ![c] = ResponseNotFound(req[c].key)]
            /\ UNCHANGED store
    /\ st' = [st EXCEPT ![c] = "Writing"]
    /\ lastOp' = [lastOp EXCEPT ![req[c].key] = [op |-> "del", value |-> Empty]]
    /\ UNCHANGED <<req, copied, nreq, nresp, ended, everPut>>
    /\ UNCHANGED ref
    /\ UNCHANGED others

\* Command::Del: shared.store.remove(&key); Some((k, v)) answers
\* Response::new(k, v), None answers not_found.
Del(c) ==
    /\ st[c] = "Dispatching"
    /\ req[c].op = "Del"
    /\ WriteLockFree(req[c].key)
    /\ IF Contains(store, req[c].key)
       THEN /\ resp' = [resp EXCEPT ![c] = ResponseNew(req[c].key, store[req[c].key])]
            /\ store' = Remove(store, req[c].key)
       ELSE /\ resp' = [resp EXCEPT ![c] = ResponseNotFound(req[c].key)]
            /\ UNCHANGED store
    /\ st' = [st EXCEPT ![c] = "Writing"]
    /\ lastOp' = [lastOp EXCEPT ![req[c].key] = [op |-> "del", value |-> Empty]]
    /\ UNCHANGED <<req, copied, nreq, nresp, ended, everPut>>
    /\ UNCHANGED ref
    /\ UNCHANGED others

\* The None arm answering as a miss.
NotImplAsNotFound(c) ==
    /\ st[c] = "Dispatching"
    /\ req[c].op = "None"
    /\ resp' = [resp EXCEPT ![c] = ResponseNotFound(req[c].key)]
    /\ st' = [st EXCEPT ![c] = "Writing"]
    /\ UNCHANGED <<store, req, copied, nreq, nresp, ended, lastOp, everPut>>
    /\ UNCHANGED ref
    /\ UNCHANGED others

\* The None arm as unimplemented!(): the task panics.
NotImplPanics(c) ==
    /\ st[c] = "Dispatching"
    /\ req[c].op = "None"
    /\ st' = [st EXCEPT ![c] = "Panicked"]
    /\ UNCHANGED <<store, req, resp, copied, nreq, nresp, ended, lastOp, everPut>>
    /\ UNCHANGED ref
    /\ UNCHANGED others

\* command None: Response::not_impl().
NotImpl(c) ==
    /\ st[c] = "Dispatching"
    /\ req[c].op = "None"
    /\ resp' = [resp EXCEPT ![c] = ResponseNotImpl]
    /\ st' = [st EXCEPT ![c] = "Writing"]
    /\ UNCHANGED <<store, req, copied, nreq, nresp, ended, lastOp, everPut>>
    /\ UNCHANGED ref
    /\ UNCHANGED others

\* SendDone with the loop left after any answer that is not a hit.
SendDoneBreaksOnMiss(c) ==
    /\ st[c] = "Writing"
    /\ nresp' = [nresp EXCEPT ![c] = @ + 1]
    /\ st' = [st EXCEPT ![c] = IF resp[c].code = 0 THEN "Reading" ELSE "Closed"]
    /\ ended' = [ended EXCEPT ![c] = IF resp[c].code = 0 THEN @ ELSE "eof"]
    /\ req' = [req EXCEPT ![c] = NoCommand]
    /\ resp' = [resp EXCEPT ![c] = ResponseDefault]
    /\ UNCHANGED <<store, copied, nreq, lastOp, everPut>>
    /\ UNCHANGED ref
    /\ UNCHANGED others

\* SendDone with the loop body run again on the same msg instead of a read.
SendDoneKeepsMsg(c) ==
    /\ st[c] = "Writing"
    /\ nresp' = [nresp EXCEPT ![c] = @ + 1]
    /\ st' = [st EXCEPT ![c] = "Dispatching"]
    /\ resp' = [resp EXCEPT ![c] = ResponseDefault]
    /\ UNCHANGED <<store, req, copied, nreq, ended, lastOp, everPut>>
    /\ UNCHANGED ref
    /\ UNCHANGED others

\* stream.send(response.into()).await completes: the frame is written and
\* flushed, and the loop reads again.  msg and response were moved out of
\* the loop body's locals, which hold nothing until the next frame.
SendDone(c) ==
    /\ st[c] = "Writing"
    /\ nresp' = [nresp EXCEPT ![c] = @ + 1]
    /\ st' = [st EXCEPT ![c] = "Reading"]
    /\ req' = [req EXCEPT ![c] = NoCommand]
    /\ resp' = [resp EXCEPT ![c] = ResponseDefault]
    /\ UNCHANGED <<store, copied, nreq, ended, lastOp, everPut>>
    /\ UNCHANGED ref
    /\ UNCHANGED others

\* SendFail that undoes the Put or Del whose response could not be written.
SendFailRollsBack(c) ==
    /\ st[c] = "Writing"
    /\ st' = [st EXCEPT ![c] = "Closed"]
    /\ ended' = [ended EXCEPT ![c] = "send_err"]
    /\ store' = IF req[c].op = "Put" THEN Remove(store, req[c].key)
                ELSE IF req[c].op = "Del" /\ resp[c].code = 0
                THEN Insert(store, req[c].key, resp[c].value)
                ELSE store
    /\ req' = [req EXCEPT ![c] = NoCommand]
    /\ resp' = [resp EXCEPT ![c] = ResponseDefault]
    /\ UNCHANGED <<copied, nreq, nresp, lastOp, everPut>>
    /\ UNCHANGED ref
    /\ UNCHANGED others

\* stream.send(...).await? fails (the peer is gone): the task returns the error.
SendFail(c) ==
    /\ st[c] = "Writing"
    /\ st' = [st EXCEPT ![c] = "Closed"]
    /\ ended' = [ended EXCEPT ![c] = "send_err"]
    /\ req' = [req EXCEPT ![c] = NoCommand]
    /\ resp' = [resp EXCEPT ![c] = ResponseDefault]
    /\ UNCHANGED <<store, copied, nreq, nresp, lastOp, everPut>>
    /\ UNCHANGED ref
    /\ UNCHANGED others

Next ==
    \E c \in Conns :
        \/ Accept(c)
        \/ ReadFrame(c)
        \/ GetLookup(c)
        \/ CopyByte(c)
        \/ GetHit(c)
        \/ Put(c)
        \/ Del(c)
        \/ NotImpl(c)
        \/ SendDone(c)
        \/ SendFail(c)

Spec == Init /\ [][Next]_vars

\* ---------------------------------------------------------------- scenario
\* The connection of the client considered; the other connections are
\* clients that use the keys of Keys.
ClientConn == 1

\* What the peer of the scenario sends on its connection: the requests of
\* client.rs, and after them "hello" read once more.
Scenario == Script \o <<NewGet(Hello)>>

\* stream.next() and try_into() on the connection of the scenario: the
\* peer's frames arrive in the order it sent them; after the last one the
\* connection stays open and the handler waits.
ScenarioRead(c) ==
    /\ c = ClientConn
    /\ st[c] = "Reading"
    /\ nreq[c] < Len(Scenario)
    /\ LET w == [bytes |-> FrameEncode(EncodeRequest(Scenario[nreq[c] + 1])),
                 end |-> "more"]
           out == FrameOutcome(w)
           msg == DecodeRequest(out.buf)
       IN  IF out.tag = "Ok" /\ msg.ok
           THEN /\ st' = [st EXCEPT ![c] = "Dispatching"]
                /\ req' = [req EXCEPT ![c] = msg.req]
                /\ nreq' = [nreq EXCEPT ![c] = @ + 1]
                /\ UNCHANGED ended
           ELSE LoopLeft(c, out)
    /\ UNCHANGED <<store, resp, copied, nresp, lastOp, everPut>>
    /\ UNCHANGED ref
    /\ UNCHANGED others

\* The other clients' connections read what ReadFrame reads.
OtherRead(c) ==
    /\ c # ClientConn
    /\ ReadFrame(c)

ScenarioNext ==
    \E c \in Conns :
        \/ Accept(c)
        \/ ScenarioRead(c)
        \/ OtherRead(c)
        \/ GetLookup(c)
        \/ CopyByte(c)
        \/ GetHit(c)
        \/ Put(c)
        \/ Del(c)
        \/ NotImpl(c)
        \/ SendDone(c)
        \/ SendFail(c)

ScenarioSpec == Init /\ [][ScenarioNext]_vars

\* -------------------------------------------------------------- disconnect
\* The peer of an accepted connection goes away: it closes its socket or
\* the connection is reset, and the server's socket is told.  Complete frames
\* it sent before may still be in the receive buffer of the socket.
PeerGone(c) ==
    /\ peer[c] = "up"
    /\ st[c] \notin {"Idle", "Closed"}
    /\ peer' = [peer EXCEPT ![c] = "gone"]
    /\ \E n \in 0..(MaxReqs - nreq[c]) : buffered' = [buffered EXCEPT ![c] = n]
    /\ UNCHANGED <<kvVars, codecVars, actorVars, ticketVars, mainVars, clientVars>>

\* What the peers send here: one request of each kind on one key, a payload
\* that does not decode, and every way the stream can end.
LivePayloads ==
    {EncodeRequest(r) :
        r \in {NoCommand, NewGet(<<1>>), NewDel(<<1>>),
               NewPut(<<1>>, [i \in 1..ValLen |-> 1])}}
    \cup {<<10>>}
LiveInputs ==
    {w \in WireInputs :
        w.end # "more" \/ w.bytes \in {FrameEncode(p) : p \in LivePayloads}}

\* stream.next() and try_into() while the peer is connected.
LiveRead(c) ==
    /\ peer[c] = "up"
    /\ st[c] = "Reading"
    /\ \E w \in LiveInputs :
         LET out == FrameOutcome(w)
             msg == DecodeRequest(out.buf)
         IN  /\ out.tag # "Pending"
             /\ IF out.tag = "Ok" /\ msg.ok THEN FrameTaken(c, msg.req)
                ELSE LoopLeft(c, out)
    /\ UNCHANGED <<store, resp, copied, nresp, lastOp, everPut>>
    /\ UNCHANGED ref
    /\ UNCHANGED others

\* GoneRead with a read on a dead socket that never completes.
GoneReadWaits(c) ==
    /\ peer[c] = "gone"
    /\ st[c] = "Reading"
    /\ \E w \in LiveInputs :
         LET out == FrameOutcome(w)
             msg == DecodeRequest(out.buf)
         IN  /\ buffered[c] > 0
             /\ w.end = "more" /\ out.tag = "Ok"
             /\ IF msg.ok THEN FrameTaken(c, msg.req) ELSE LoopLeft(c, out)
             /\ buffered' = [buffered EXCEPT ![c] = @ - 1]
    /\ UNCHANGED <<store, resp, copied, nresp, lastOp, everPut>>
    /\ UNCHANGED ref
    /\ UNCHANGED <<peer, codecVars, actorVars, ticketVars, mainVars, clientVars>>

\* stream.next() after the peer has gone: the frames still buffered are
\* yielded one by one; after them the read reports end of stream or an
\* error, and the codec yields None or Some(Err).
GoneRead(c) ==
    /\ peer[c] = "gone"
    /\ st[c] = "Reading"
    /\ \E w \in LiveInputs :
         LET out == FrameOutcome(w)
             msg == DecodeRequest(out.buf)
         IN  IF buffered[c] > 0
             THEN /\ w.end = "more" /\ out.tag = "Ok"
                  /\ IF msg.ok THEN FrameTaken(c, msg.req) ELSE LoopLeft(c, out)
                  /\ buffered' = [buffered EXCEPT ![c] = @ - 1]
             ELSE /\ w.end # "more" /\ out.tag # "Pending"
                  /\ IF out.tag = "Ok" /\ msg.ok THEN FrameTaken(c, msg.req)
                     ELSE LoopLeft(c, out)
                  /\ UNCHANGED buffered
    /\ UNCHANGED <<store, resp, copied, nresp, lastOp, everPut>>
    /\ UNCHANGED ref
    /\ UNCHANGED <<peer, codecVars, actorVars, ticketVars, mainVars, clientVars>>

LiveNext ==
    \E c \in Conns :
        \/ Accept(c)
        \/ PeerGone(c)
        \/ LiveRead(c)
        \/ GoneRead(c)
        \/ GetLookup(c)
        \/ CopyByte(c)
        \/ GetHit(c)
        \/ Put(c)
        \/ Del(c)
        \/ NotImpl(c)
        \/ SendDone(c)
        \/ SendFail(c)

\* What the task of connection c does when the runtime polls it: a dispatch
\* step, which never waits for the peer, or, once the peer has gone, the
\* completion of the read or write it is waiting in.
TaskStep(c) ==
    \/ GetLookup(c) \/ CopyByte(c) \/ GetHit(c)
    \/ Put(c) \/ Del(c) \/ NotImpl(c)
    \/ GoneRead(c)
    \/ (peer[c] = "gone" /\ (SendDone(c) \/ SendFail(c)))

\* The tokio runtime polls every task that is ready.
LiveSpec ==
    /\ Init
    /\ [][LiveNext]_vars
    /\ \A c \in Conns : WF_vars(TaskStep(c))

\* ---------------------------------------------------------------- progress
\* The peer of a connection stays connected but stops sending and reading
\* for good: it is silent, or has sent part of a frame, or never reads its
\* responses.
PeerStalls(c) ==
    /\ peer[c] = "up"
    /\ st[c] \notin {"Idle", "Closed"}
    /\ peer' = [peer EXCEPT ![c] = "stalled"]
    /\ UNCHANGED <<buffered, kvVars, codecVars, actorVars, ticketVars, mainVars, clientVars>>

ProgressNext ==
    \E c \in Conns :
        \/ Accept(c)
        \/ PeerGone(c)
        \/ PeerStalls(c)
        \/ LiveRead(c)
        \/ GoneRead(c)
        \/ GetLookup(c)
        \/ CopyByte(c)
        \/ GetHit(c)
        \/ Put(c)
        \/ Del(c)
        \/ NotImpl(c)
        \/ SendDone(c)
        \/ SendFail(c)

\* The steps of a handler between reading a request and writing the
\* response, none of which waits for a socket.
DispatchStep(c) ==
    \/ GetLookup(c) \/ CopyByte(c) \/ GetHit(c)
    \/ Put(c) \/ Del(c) \/ NotImpl(c)

\* The write of a response to a peer that reads completes.
SendToReader(c) ==
    /\ peer[c] = "up"
    /\ SendDone(c)

\* The runtime polls every ready task; a task waiting for a socket is ready
\* when the socket is.  Nothing is assumed of peers that stall.
ProgressSpec ==
    /\ Init
    /\ [][ProgressNext]_vars
    /\ \A c \in Conns : WF_vars(DispatchStep(c)) /\ WF_vars(SendToReader(c))

\* ------------------------------------------------------------- accept loop
\* The accept loop of main with the failure of listener.accept().

\* An accept that goes on after main has returned.
ServerAcceptAlways(c) == Accept(c)

\* `let (stream, addr) = listener.accept().await?` yields a socket: main is
\* in its loop and spawns the handler.
ServerAccept(c) ==
    /\ mainPc = "accepting"
    /\ Accept(c)

\* listener.accept().await? yields an error: main returns it.
AcceptFail ==
    /\ mainPc = "accepting"
    /\ mainPc' = "returned"
    /\ UNCHANGED <<kvVars, peerVars, codecVars, actorVars, ticketVars, clientVars>>

\* main has returned and the runtime is shut down: a task waiting in
\* stream.next() or stream.send() is dropped there, and its socket with it.
\* A task being polled runs on until it next has to wait.
TaskDropped(c) ==
    /\ mainPc = "returned"
    /\ st[c] \in {"Reading", "Writing"}
    /\ st' = [st EXCEPT ![c] = "Closed"]
    /\ ended' = [ended EXCEPT ![c] = "shutdown"]
    /\ req' = [req EXCEPT ![c] = NoCommand]
    /\ resp' = [resp EXCEPT ![c] = ResponseDefault]
    /\ UNCHANGED <<store, copied, nreq, nresp, lastOp, everPut, ref>>
    /\ UNCHANGED others

ServerNext ==
    \/ AcceptFail
    \/ \E c \in Conns :
        \/ ServerAccept(c)
        \/ TaskDropped(c)
        \/ ReadFrame(c)
        \/ GetLookup(c)
        \/ CopyByte(c)
        \/ GetHit(c)
        \/ Put(c)
        \/ Del(c)
        \/ NotImpl(c)
        \/ SendDone(c)
        \/ SendFail(c)

ServerSpec == Init /\ [][ServerNext]_vars

\* ------------------------------------------------------------------ client
\* client.rs against the server: the client's main, its socket as two
\* queues of frames, and the handler of its connection; the other
\* connections belong to clients that use the keys of Keys.

\* TcpStream::connect(addr).await? succeeds.
ClientConnect ==
    /\ clientPc = "off"
    /\ clientPc' = "send"
    /\ UNCHANGED <<clientSent, clientGot, upstream, downstream, link>>
    /\ UNCHANGED <<kvVars, peerVars, codecVars, actorVars, ticketVars, mainVars>>

\* stream.send(msg.into()).await? for the next request: one frame is
\* written; after the last request the client goes on to read.
ClientSend ==
    /\ clientPc = "send"
    /\ link = "open"
    /\ upstream' =
          Append(upstream, FrameEncode(EncodeRequest(Script[clientSent + 1])))
    /\ clientSent' = clientSent + 1
    /\ clientPc' = IF clientSent + 1 = Len(Script) THEN "read" ELSE "send"
    /\ UNCHANGED <<clientGot, downstream, link>>
    /\ UNCHANGED <<kvVars, peerVars, codecVars, actorVars, ticketVars, mainVars>>

\* stream.send(...).await? fails: main returns the error.
ClientSendFail ==
    /\ clientPc = "send"
    /\ link = "broken" \/ st[ClientConn] = "Closed"
    /\ clientPc' = "failed"
    /\ UNCHANGED <<clientSent, clientGot, upstream, downstream, link>>
    /\ UNCHANGED <<kvVars, peerVars, codecVars, actorVars, ticketVars, mainVars>>

\* ClientRead that returns once it has read as many responses as it sent
\* requests.
ClientReadFour ==
    /\ clientPc = "read"
    /\ IF downstream # <<>>
       THEN LET out == FrameOutcome([bytes |-> Head(downstream), end |-> "more"])
                got == DecodeResponse(out.buf)
            IN  /\ downstream' = Tail(downstream)
                /\ IF out.tag = "Ok" /\ got.ok
                   THEN /\ clientGot' = Append(clientGot, got.resp)
                        /\ clientPc' = IF Len(clientGot) + 1 = clientSent
                                       THEN "done" ELSE "read"
                   ELSE clientPc' = "failed" /\ UNCHANGED clientGot
       ELSE /\ link = "broken" \/ st[ClientConn] = "Closed"
            /\ clientPc' = "done"
            /\ UNCHANGED <<clientGot, downstream>>
    /\ UNCHANGED <<clientSent, upstream, link>>
    /\ UNCHANGED <<kvVars, peerVars, codecVars, actorVars, ticketVars, mainVars>>

\* One evaluation of `while let Some(Ok(buf)) = stream.next().await` and of
\* Response::try_from(buf)? in the client: a frame is decoded and printed;
\* with nothing left to read, the stream ends when the server has closed the
\* connection or the socket has failed, and main returns Ok(()); otherwise
\* the client waits.
ClientRead ==
    /\ clientPc = "read"
    /\ IF downstream # <<>>
       THEN LET out == FrameOutcome([bytes |-> Head(downstream), end |-> "more"])
                got == DecodeResponse(out.buf)
            IN  /\ downstream' = Tail(downstream)
                /\ IF out.tag = "Ok" /\ got.ok
                   THEN clientGot' = Append(clientGot, got.resp) /\ UNCHANGED clientPc
                   ELSE clientPc' = "failed" /\ UNCHANGED clientGot
       ELSE /\ link = "broken" \/ st[ClientConn] = "Closed"
            /\ clientPc' = "done"
            /\ UNCHANGED <<clientGot, downstream>>
    /\ UNCHANGED <<clientSent, upstream, link>>
    /\ UNCHANGED <<kvVars, peerVars, codecVars, actorVars, ticketVars, mainVars>>

\* The client's socket fails.
LinkBreaks ==
    /\ clientPc # "off"
    /\ link = "open"
    /\ link' = "broken"
    /\ UNCHANGED <<clientPc, clientSent, clientGot, upstream, downstream>>
    /\ UNCHANGED <<kvVars, peerVars, codecVars, actorVars, ticketVars, mainVars>>

\* listener.accept() yields the client's connection, or another one.
ClientAccept(c) ==
    /\ c = ClientConn => clientPc # "off"
    /\ Accept(c)

\* ClientServerRead that yields the frame received last.
ClientServerReadNewest(c) ==
    /\ c = ClientConn
    /\ st[c] = "Reading"
    /\ upstream # <<>>
    /\ LET out == FrameOutcome([bytes |-> upstream[Len(upstream)], end |-> "more"])
           msg == DecodeRequest(out.buf)
       IN  IF out.tag = "Ok" /\ msg.ok
           THEN /\ st' = [st EXCEPT ![c] = "Dispatching"]
                /\ req' = [req EXCEPT ![c] = msg.req]
                /\ nreq' = [nreq EXCEPT ![c] = @ + 1]
                /\ UNCHANGED ended
           ELSE LoopLeft(c, out)
    /\ upstream' = SubSeq(upstream, 1, Len(upstream) - 1)
    /\ UNCHANGED <<store, resp, copied, nresp, lastOp, everPut, ref>>
    /\ UNCHANGED <<clientPc, clientSent, clientGot, downstream, link>>
    /\ UNCHANGED <<peerVars, codecVars, actorVars, ticketVars, mainVars>>

\* stream.next() and try_into() in the handler of the client's connection:
\* the oldest frame not yet read; with none, Some(Err) after a socket
\* failure, None after the client has exited, and otherwise the handler
\* waits.
ClientServerRead(c) ==
    /\ c = ClientConn
    /\ st[c] = "Reading"
    /\ upstream # <<>> \/ link = "broken" \/ clientPc \in {"done", "failed"}
    /\ LET w == IF upstream # <<>> THEN [bytes |-> Head(upstream), end |-> "more"]
                ELSE IF link = "broken" THEN [bytes |-> Empty, end |-> "reset"]
                ELSE [bytes |-> Empty, end |-> "eof"]
           out == FrameOutcome(w)
           msg == DecodeRequest(out.buf)
       IN  IF out.tag = "Ok" /\ msg.ok
           THEN /\ st' = [st EXCEPT ![c] = "Dispatching"]
                /\ req' = [req EXCEPT ![c] = msg.req]
                /\ nreq' = [nreq EXCEPT ![c] = @ + 1]
                /\ UNCHANGED ended
           ELSE LoopLeft(c, out)
    /\ upstream' = IF upstream # <<>> THEN Tail(upstream) ELSE upstream
    /\ UNCHANGED <<store, resp, copied, nresp, lastOp, everPut, ref>>
    /\ UNCHANGED <<clientPc, clientSent, clientGot, downstream, link>>
    /\ UNCHANGED <<peerVars, codecVars, actorVars, ticketVars, mainVars>>

\* stream.send(response.into()).await completes on the client's connection:
\* the encoded response is written as one frame.
ClientSendDone(c) ==
    /\ c = ClientConn
    /\ st[c] = "Writing"
    /\ link = "open"
    /\ downstream' = Append(downstream, FrameEncode(EncodeResponse(resp[c])))
    /\ nresp' = [nresp EXCEPT ![c] = @ + 1]
    /\ st' = [st EXCEPT ![c] = "Reading"]
    /\ req' = [req EXCEPT ![c] = NoCommand]
    /\ resp' = [resp EXCEPT ![c] = ResponseDefault]
    /\ UNCHANGED <<store, copied, nreq, ended, lastOp, everPut, ref>>
    /\ UNCHANGED <<clientPc, clientSent, clientGot, upstream, link>>
    /\ UNCHANGED <<peerVars, codecVars, actorVars, ticketVars, mainVars>>

\* The same on the other connections.
OtherSendDone(c) ==
    /\ c # ClientConn
    /\ SendDone(c)

ClientNext ==
    \/ ClientConnect
    \/ ClientSend
    \/ ClientSendFail
    \/ ClientRead
    \/ LinkBreaks
    \/ \E c \in Conns :
        \/ ClientAccept(c)
        \/ ClientServerRead(c)
        \/ OtherRead(c)
        \/ GetLookup(c)
        \/ CopyByte(c)
        \/ GetHit(c)
        \/ Put(c)
        \/ Del(c)
        \/ NotImpl(c)
        \/ ClientSendDone(c)
        \/ OtherSendDone(c)
        \/ SendFail(c)

ClientSpec == Init /\ [][ClientNext]_vars

\* ------------------------------------------------------------------- codec
\* One message taken through the conversions of pb.rs and the codec of
\* server.rs and client.rs: From<..> for Bytes, the frame written by send,
\* the frame read by next, TryFrom<BytesMut>.
FrameLimit == 65535

RequestMessage(r) ==
    [kind |-> "request", code |-> 0, op |-> r.op, key |-> r.key, value |-> r.value]
ResponseMessage(r) ==
    [kind |-> "response", code |-> r.code, op |-> "None", key |-> r.key, value |-> r.value]
AsRequest(m) == [op |-> m.op, key |-> m.key, value |-> m.value]
AsResponse(m) == [code |-> m.code, key |-> m.key, value |-> m.value]

\* The requests of the clients and the responses the server can form on them.
CodecRequests == Requests \cup {Script[i] : i \in DOMAIN Script}
CodecResponses ==
    {[code |-> cd, key |-> k, value |-> v] :
        cd \in {CodeOk, CodeNotFound, CodeNotImpl},
        k \in AllKeys,
        v \in PutValues \cup {World}}
CodecMessages ==
    {RequestMessage(r) : r \in CodecRequests}
    \cup {ResponseMessage(r) : r \in CodecResponses}

CodecInit ==
    /\ KvInit /\ PeerInit /\ ActorIdle /\ TicketIdle /\ MainInit /\ ClientIdle
    /\ cmsg \in CodecMessages
    /\ cbytes = Empty
    /\ cback = NoMessage
    /\ cpc = "start"

\* msg.into(): From<Request> for Bytes, From<Response> for Bytes.
CodecEncode ==
    /\ cpc = "start"
    /\ cbytes' = IF cmsg.kind = "request" THEN EncodeRequest(AsRequest(cmsg))
                 ELSE EncodeResponse(AsResponse(cmsg))
    /\ cpc' = "encoded"
    /\ UNCHANGED <<cmsg, cback, kvVars, peerVars, actorVars, ticketVars, mainVars, clientVars>>

\* stream.send(bytes): a payload within the limit of the length field is
\* written as one frame.
CodecFrame ==
    /\ cpc = "encoded"
    /\ IF Len(cbytes) <= FrameLimit
       THEN cbytes' = FrameEncode(cbytes) /\ cpc' = "framed"
       ELSE cpc' = "too_big" /\ UNCHANGED cbytes
    /\ UNCHANGED <<cmsg, cback, kvVars, peerVars, actorVars, ticketVars, mainVars, clientVars>>

\* stream.next() on the bytes of that frame.
CodecUnframe ==
    /\ cpc = "framed"
    /\ LET out == FrameOutcome([bytes |-> cbytes, end |-> "more"])
       IN  IF out.tag = "Ok"
           THEN cbytes' = out.buf /\ cpc' = "unframed"
           ELSE cpc' = "frame_failed" /\ UNCHANGED cbytes
    /\ UNCHANGED <<cmsg, cback, kvVars, peerVars, actorVars, ticketVars, mainVars, clientVars>>

\* buf.try_into() / Response::try_from(buf).
CodecDecode ==
    /\ cpc = "unframed"
    /\ IF cmsg.kind = "request"
       THEN LET got == DecodeRequest(cbytes)
            IN  IF got.ok
                THEN cback' = RequestMessage(got.req) /\ cpc' = "decoded"
                ELSE cpc' = "decode_failed" /\ UNCHANGED cback
       ELSE LET got == DecodeResponse(cbytes)
            IN  IF got.ok
                THEN cback' = ResponseMessage(got.resp) /\ cpc' = "decoded"
                ELSE cpc' = "decode_failed" /\ UNCHANGED cback
    /\ UNCHANGED <<cmsg, cbytes, kvVars, peerVars, actorVars, ticketVars, mainVars, clientVars>>

CodecNext == CodecEncode \/ CodecFrame \/ CodecUnframe \/ CodecDecode

CodecSpec == CodecInit /\ [][CodecNext]_vars

\* ------------------------------------------------------------------- actor
\* actor.rs: an actor task owning a state and the receiving end of a bounded
\* mpsc channel, and tasks that call it through clones of its Pid.  The
\* state is the i32 counter of the test, its requests "+1" and "-1".
NumCallers == 3
MaxMsgLen == 2
MaxCalls == 2

Callers == 1..NumCallers
CallRequests == {"+1", "-1"}

\* impl HandleCall for i32: the new state and the reply.
HandleCall(state, request) ==
    IF request = "+1" THEN [ok |-> TRUE, state |-> state + 1, reply |-> state + 1]
    ELSE IF request = "-1" THEN [ok |-> TRUE, state |-> state - 1, reply |-> state - 1]
    ELSE [ok |-> FALSE, state |-> state, reply |-> 0]

\* Actor::spawn(max_msg_len, 0i32): an empty channel, the actor waiting in
\* recv, no call made.
ActorInit ==
    /\ KvInit /\ PeerInit /\ CodecIdle /\ TicketIdle /\ MainInit /\ ClientIdle
    /\ actorState = 0
    /\ mailbox = <<>>
    /\ handling = NoCall
    /\ callerPc = [p \in Callers |-> "idle"]
    /\ callerReply = [p \in Callers |-> 0]
    /\ callsMade = [p \in Callers |-> 0]
    /\ sentOrder = <<>>
    /\ handledLog = <<>>

\* Pid::send up to the completion of self.sender.send(msg).await, which
\* waits while the channel is full: the message is in the mailbox and the
\* caller waits on the oneshot receiver.
PidSend(p) ==
    /\ callerPc[p] = "idle"
    /\ callsMade[p] < MaxCalls
    /\ Len(mailbox) < MaxMsgLen
    /\ \E data \in CallRequests :
         /\ mailbox' = Append(mailbox, [from |-> p, data |-> data])
         /\ sentOrder' = Append(sentOrder, [from |-> p, data |-> data])
    /\ callerPc' = [callerPc EXCEPT ![p] = "waiting"]
    /\ callsMade' = [callsMade EXCEPT ![p] = @ + 1]
    /\ UNCHANGED <<actorState, handling, callerReply, handledLog>>
    /\ UNCHANGED <<kvVars, peerVars, codecVars, ticketVars, mainVars, clientVars>>

\* ActorRecv that takes the newest message of the mailbox.
ActorRecvNewest ==
    /\ handling = NoCall
    /\ mailbox # <<>>
    /\ handling' = mailbox[Len(mailbox)]
    /\ mailbox' = SubSeq(mailbox, 1, Len(mailbox) - 1)
    /\ UNCHANGED <<actorState, callerPc, callerReply, callsMade, sentOrder, handledLog>>
    /\ UNCHANGED <<kvVars, peerVars, codecVars, ticketVars, mainVars, clientVars>>

\* actor.receiver.recv().await yields Some(msg): the oldest message.
ActorRecv ==
    /\ handling = NoCall
    /\ mailbox # <<>>
    /\ handling' = Head(mailbox)
    /\ mailbox' = Tail(mailbox)
    /\ UNCHANGED <<actorState, callerPc, callerReply, callsMade, sentOrder, handledLog>>
    /\ UNCHANGED <<kvVars, peerVars, codecVars, ticketVars, mainVars, clientVars>>

\* state.handle_call(&msg.data).unwrap() and msg.sender.send(reply): the
\* state is updated and the reply put in the caller's oneshot channel.
ActorHandle ==
    /\ handling # NoCall
    /\ LET r == HandleCall(actorState, handling.data)
       IN  /\ r.ok
           /\ actorState' = r.state
           /\ callerReply' = [callerReply EXCEPT ![handling.from] = r.reply]
           /\ handledLog' = Append(handledLog,
                 [from |-> handling.from, data |-> handling.data, reply |-> r.reply])
    /\ callerPc' = [callerPc EXCEPT ![handling.from] = "replied"]
    /\ handling' = NoCall
    /\ UNCHANGED <<mailbox, callsMade, sentOrder>>
    /\ UNCHANGED <<kvVars, peerVars, codecVars, ticketVars, mainVars, clientVars>>

\* receiver.await? yields the reply and Pid::send returns Ok(reply).
PidReturn(p) ==
    /\ callerPc[p] = "replied"
    /\ callerPc' = [callerPc EXCEPT ![p] = "idle"]
    /\ UNCHANGED <<actorState, mailbox, handling, callerReply, callsMade, sentOrder, handledLog>>
    /\ UNCHANGED <<kvVars, peerVars, codecVars, ticketVars, mainVars, clientVars>>

ActorNext ==
    \/ \E p \in Callers : PidSend(p)
    \/ ActorRecv
    \/ ActorHandle
    \/ \E p \in Callers : PidReturn(p)

ActorSpec == ActorInit /\ [][ActorNext]_vars

\* The actor task after a panic: its future has been dropped, and with it
\* the state and the receiving end of the channel.
ActorGone == [from |-> 0, data |-> "panicked"]

\* The actor task while the panic unwinds: the message in hand has been
\* dropped, the receiver not yet, and the channel is open.
ActorUnwinding == [from |-> 0, data |-> "unwinding"]

\* Requests of a caller of the dying actor: one the handler accepts and one
\* for which handle_call returns Err.
DeathRequests == {"+1", "boom"}

\* Pid::send is called: the oneshot channel and the message are made and
\* self.sender.send(msg) is polled, which waits for room in the channel.
PidCall(p) ==
    /\ callerPc[p] \in {"idle", "idle_err"}
    /\ callsMade[p] < MaxCalls
    /\ callerPc' = [callerPc EXCEPT ![p] = "sending"]
    /\ callsMade' = [callsMade EXCEPT ![p] = @ + 1]
    /\ UNCHANGED <<actorState, mailbox, handling, callerReply, sentOrder, handledLog>>
    /\ UNCHANGED <<kvVars, peerVars, codecVars, ticketVars, mainVars, clientVars>>

\* The callers that hold a permit of the channel.
Permitted == {q \in Callers : callerPc[q] = "permitted"}

\* self.sender.send(msg) takes its permit: the receiver is not dropped and
\* the channel has room, the queued messages and the permits taken counted.
PidReserve(p) ==
    /\ callerPc[p] = "sending"
    /\ handling # ActorGone
    /\ Len(mailbox) + Cardinality(Permitted) < MaxMsgLen
    /\ callerPc' = [callerPc EXCEPT ![p] = "permitted"]
    /\ UNCHANGED <<actorState, mailbox, handling, callerReply, callsMade, sentOrder, handledLog>>
    /\ UNCHANGED <<kvVars, peerVars, codecVars, ticketVars, mainVars, clientVars>>

\* self.sender.send(msg).await completes with Ok: the holder of a permit
\* puts its message in the channel, whether or not the receiver is still
\* there, and goes on to receiver.await.
PidEnqueue(p) ==
    /\ callerPc[p] = "permitted"
    /\ \E data \in DeathRequests :
         mailbox' = Append(mailbox, [from |-> p, data |-> data])
    /\ callerPc' = [callerPc EXCEPT ![p] = "waiting"]
    /\ UNCHANGED <<actorState, handling, callerReply, callsMade, sentOrder, handledLog>>
    /\ UNCHANGED <<kvVars, peerVars, codecVars, ticketVars, mainVars, clientVars>>

\* self.sender.send(msg).await completes with Err(SendError(msg)), the
\* receiver being dropped before a permit was taken; `let _ =`
\* drops the message and its oneshot sender.
PidSendClosed(p) ==
    /\ callerPc[p] = "sending"
    /\ handling = ActorGone
    /\ callerPc' = [callerPc EXCEPT ![p] = "failed"]
    /\ UNCHANGED <<actorState, mailbox, handling, callerReply, callsMade, sentOrder, handledLog>>
    /\ UNCHANGED <<kvVars, peerVars, codecVars, ticketVars, mainVars, clientVars>>

\* state.handle_call(&msg.data).unwrap() panics: unwinding drops the
\* message in hand, and its oneshot sender fails the caller's receiver.  The
\* receiver of the channel is still there.
ActorPanic ==
    /\ handling \notin {NoCall, ActorUnwinding, ActorGone}
    /\ ~HandleCall(actorState, handling.data).ok
    /\ callerPc' = [callerPc EXCEPT ![handling.from] = "failed"]
    /\ handling' = ActorUnwinding
    /\ UNCHANGED <<actorState, mailbox, callerReply, callsMade, sentOrder, handledLog>>
    /\ UNCHANGED <<kvVars, peerVars, codecVars, ticketVars, mainVars, clientVars>>

\* The panicked task's future is dropped and the receiver with it, which
\* closes the channel and drops the messages queued by then; every oneshot
\* sender so dropped fails its caller's receiver.  A message put in the
\* channel afterwards stays there as long as a Pid exists.
ReceiverDropped ==
    /\ handling = ActorUnwinding
    /\ callerPc' =
          [p \in Callers |->
              IF \E i \in 1..Len(mailbox) : mailbox[i].from = p
              THEN "failed" ELSE callerPc[p]]
    /\ mailbox' = <<>>
    /\ handling' = ActorGone
    /\ UNCHANGED <<actorState, callerReply, callsMade, sentOrder, handledLog>>
    /\ UNCHANGED <<kvVars, peerVars, codecVars, ticketVars, mainVars, clientVars>>

\* receiver.await? yields Err(RecvError) and Pid::send returns the error.
PidReturnErr(p) ==
    /\ callerPc[p] = "failed"
    /\ callerPc' = [callerPc EXCEPT ![p] = "idle_err"]
    /\ UNCHANGED <<actorState, mailbox, handling, callerReply, callsMade, sentOrder, handledLog>>
    /\ UNCHANGED <<kvVars, peerVars, codecVars, ticketVars, mainVars, clientVars>>

ActorDeathNext ==
    \/ \E p \in Callers : PidCall(p)
    \/ \E p \in Callers : PidReserve(p)
    \/ \E p \in Callers : PidEnqueue(p)
    \/ \E p \in Callers : PidSendClosed(p)
    \/ ActorRecv
    \/ ActorHandle
    \/ ActorPanic
    \/ ReceiverDropped
    \/ \E p \in Callers : PidReturn(p)
    \/ \E p \in Callers : PidReturnErr(p)

\* The step of a caller's task that room in the channel, a permit, a dropped
\* receiver, a reply or a dropped oneshot sender has woken.
CallerWoken(p) ==
    PidReserve(p) \/ PidEnqueue(p) \/ PidSendClosed(p) \/ PidReturnErr(p) \/ PidReturn(p)

\* The step of the actor's task.
ActorStep == ActorRecv \/ ActorHandle \/ ActorPanic \/ ReceiverDropped

\* The runtime polls every woken task.
ActorDeathSpec ==
    /\ ActorInit
    /\ [][ActorDeathNext]_vars
    /\ \A p \in Callers : WF_vars(CallerWoken(p))
    /\ WF_vars(ActorStep)

\* ------------------------------------------------------------------ ticket
\* ticket.rs: a Meseum with a semaphore of `total` permits; a Ticket holds
\* one permit until it is dropped.  lastTicket is what the latest call gave:
\* "Some" or "None" from get_ticket, "freed" from a drop.
MaxTotal == 10

\* Meseum::new(total): Semaphore::new(total), no ticket handed out.
TicketInit ==
    /\ KvInit /\ PeerInit /\ CodecIdle /\ ActorIdle /\ MainInit /\ ClientIdle
    /\ total \in 0..MaxTotal
    /\ remaining_tickets = total
    /\ liveTickets = 0
    /\ lastTicket = "none"

\* get_ticket: try_acquire() takes a permit if one is available and the
\* permit is wrapped in a Ticket; otherwise None.
GetTicket ==
    /\ IF remaining_tickets > 0
       THEN /\ remaining_tickets' = remaining_tickets - 1
            /\ liveTickets' = liveTickets + 1
            /\ lastTicket' = "Some"
       ELSE /\ lastTicket' = "None"
            /\ UNCHANGED <<remaining_tickets, liveTickets>>
    /\ UNCHANGED total
    /\ UNCHANGED <<kvVars, peerVars, codecVars, actorVars, mainVars, clientVars>>

\* A drop that prints but keeps the permit.
DropTicketLeaks ==
    /\ liveTickets > 0
    /\ liveTickets' = liveTickets - 1
    /\ lastTicket' = "freed"
    /\ UNCHANGED <<total, remaining_tickets>>
    /\ UNCHANGED <<kvVars, peerVars, codecVars, actorVars, mainVars, clientVars>>

\* A Ticket goes out of scope or is passed to drop: Drop::drop prints, then
\* its SemaphorePermit is dropped, which returns the permit.
DropTicket ==
    /\ liveTickets > 0
    /\ liveTickets' = liveTickets - 1
    /\ remaining_tickets' = remaining_tickets + 1
    /\ lastTicket' = "freed"
    /\ UNCHANGED total
    /\ UNCHANGED <<kvVars, peerVars, codecVars, actorVars, mainVars, clientVars>>

TicketNext == GetTicket \/ DropTicket

TicketSpec == TicketInit /\ [][TicketNext]_vars

\* ------------------------------------------------------------------ claims
\* The step of connection c that forms the answer to its request.
Answers(c) == st[c] \in {"Dispatching", "Copying"} /\ st'[c] = "Writing"
\* Connection c is sending the answer to a request with command op.
Sending(c, op) == st[c] = "Writing" /\ req[c].op = op
FullValues == PutValues \ {Empty}

\* C1: Put-then-Get.  Whenever a Get(k) is answered while the latest Put or
\* Del dispatched on k, by any connection, is a Put(k, v), the answer is
\* {code: 0, key: k, value: v}.
C1_PutThenGet ==
    [][\A c \in Conns :
         (Answers(c) /\ req[c].op = "Get" /\ lastOp[req[c].key].op = "put")
         => resp'[c] = [code |-> 0, key |-> req[c].key,
                        value |-> lastOp[req[c].key].value]]_vars

\* A Get that is the first request of its connection is answered with a
\* value another connection Put over an earlier, different value.
C1_Witness ==
    \E c \in Conns :
        /\ Sending(c, "Get")
        /\ nreq[c] = 1
        /\ resp[c].code = 0
        /\ resp[c].value \in FullValues
        /\ lastOp[req[c].key] = [op |-> "put", value |-> resp[c].value]
        /\ Cardinality(everPut[req[c].key]) >= 2

\* C2: per-key atomicity.  Every Get(k) or Del(k) answered with code 0
\* carries the complete value of the latest Put(k, v) dispatched and not yet
\* deleted, which is one of the values Put on k: never a mixture of two
\* values, never a value that was not Put.
C2_NoTornValue ==
    [][\A c \in Conns :
         (Answers(c) /\ req[c].op \in {"Get", "Del"} /\ resp'[c].code = 0)
         => /\ lastOp[req[c].key].op = "put"
            /\ resp'[c].value = lastOp[req[c].key].value
            /\ resp'[c].value \in everPut[req[c].key]]_vars

\* A Get of k is answered with a full value while another connection has a
\* Put of another full value on k waiting to be dispatched.
C2_Witness ==
    \E c, d \in Conns :
        /\ c # d
        /\ Sending(c, "Get")
        /\ resp[c].code = 0
        /\ resp[c].value \in FullValues
        /\ st[d] = "Dispatching"
        /\ req[d].op = "Put"
        /\ req[d].key = req[c].key
        /\ req[d].value \in FullValues \ {resp[c].value}

\* C3: strict alternation on one connection.  The requests decoded exceed
\* the responses written by at most one; a handler waiting for a frame has
\* answered every request it decoded; a handler that is dispatching or
\* sending holds exactly one unanswered request, and what it sends answers
\* that request.
C3_Alternation ==
    \A c \in Conns :
        /\ nresp[c] <= nreq[c]
        /\ nreq[c] <= nresp[c] + 1
        /\ st[c] \in {"Idle", "Reading"} => nreq[c] = nresp[c]
        /\ st[c] \in {"Dispatching", "Copying", "Writing"} => nreq[c] = nresp[c] + 1
        /\ st[c] = "Writing" =>
              \/ req[c].op = "None" /\ resp[c].code = 500
              \/ req[c].op # "None" /\ resp[c].key = req[c].key

\* The second request of a connection is being answered after the first
\* response was written.
C3_Witness ==
    \E c \in Conns : st[c] = "Writing" /\ nreq[c] = 2 /\ nresp[c] = 1

\* C4: miss semantics.  A Get(k) or Del(k) dispatched while k is not in the
\* store is answered {code: 404, key: k, value: empty}.
C4_Miss ==
    [][\A c \in Conns :
         (Answers(c) /\ req[c].op \in {"Get", "Del"} /\ req[c].key \notin DOMAIN store)
         => resp'[c] = [code |-> 404, key |-> req[c].key, value |-> <<>>]]_vars

\* A Get and a Del of keys that no request has touched are both answered 404.
C4_Witness ==
    \E c, d \in Conns :
        /\ Sending(c, "Get") /\ Sending(d, "Del")
        /\ req[c].key \in Keys /\ req[d].key \in Keys
        /\ resp[c].code = 404 /\ resp[d].code = 404
        /\ lastOp[req[c].key].op = "none"
        /\ everPut[req[d].key] = {}

\* C5: Del on a present key.  A Del(k) dispatched while the store maps k to v
\* is answered {code: 0, key: k, value: v} and k is removed.
C5_DelReturnsPrior ==
    [][\A c \in Conns :
         (Answers(c) /\ req[c].op = "Del" /\ req[c].key \in DOMAIN store)
         => /\ resp'[c] = [code |-> 0, key |-> req[c].key, value |-> store[req[c].key]]
            /\ req[c].key \notin DOMAIN store']_vars

\* A Del is answered with a full value and the key is gone.
C5_Witness ==
    \E c \in Conns :
        /\ Sending(c, "Del")
        /\ resp[c].code = 0
        /\ resp[c].value \in FullValues
        /\ req[c].key \notin DOMAIN store

\* C6: Delete removes.  A Get(k) answered when a Put(k, _) was dispatched and
\* the latest Put or Del dispatched on k is a Del is answered with code 404.
C6_DeleteRemoves ==
    [][\A c \in Conns :
         (/\ Answers(c)
          /\ req[c].op = "Get"
          /\ lastOp[req[c].key].op = "del"
          /\ everPut[req[c].key] # {})
         => resp'[c].code = 404]_vars

\* A Get of a key that was Put and then deleted is answered 404.
C6_Witness ==
    \E c \in Conns :
        /\ Sending(c, "Get")
        /\ resp[c].code = 404
        /\ lastOp[req[c].key].op = "del"
        /\ everPut[req[c].key] # {}

\* C7: unset command.  A decoded Request without a command is answered with
\* code 500 and an empty key and value.
C7_UnsetCommand ==
    \A c \in Conns :
        Sending(c, "None") => resp[c] = [code |-> 500, key |-> <<>>, value |-> <<>>]

\* A request without a command is being answered.
C7_Witness == \E c \in Conns : Sending(c, "None") /\ resp[c].code = 500

\* C8: Put is always a hit.  Every Put(k, v) is answered
\* {code: 0, key: k, value: v}.
C8_PutAlwaysHit ==
    \A c \in Conns :
        Sending(c, "Put") =>
            resp[c] = [code |-> 0, key |-> req[c].key, value |-> req[c].value]

\* A Put that replaced another value of its key is being answered.
C8_Witness ==
    \E c \in Conns :
        /\ Sending(c, "Put")
        /\ resp[c].code = 0
        /\ Cardinality(everPut[req[c].key]) >= 2

\* C9: framing and decode errors are fatal.  A handler whose frame stream
\* yielded an error, whose stream ended before a frame was complete (with an
\* error, or with None right after the length field), or whose frame did
\* not decode, is Closed from that step on and decodes no further request.
ReadErrors == {"frame_err", "decode_err", "eof_cut"}
C9_ReadErrorsFatal ==
    [][\A c \in Conns :
         /\ ended'[c] \in ReadErrors => st'[c] = "Closed"
         /\ ended[c] \in ReadErrors =>
              /\ st'[c] = "Closed"
              /\ nreq'[c] = nreq[c]
              /\ ended'[c] = ended[c]]_vars

\* One handler ended when its stream ended right after a length field, and
\* another on a frame that did not decode, after it had served a request.
C9_Witness ==
    \E c, d \in Conns :
        /\ ended[c] = "eof_cut" /\ st[c] = "Closed"
        /\ ended[d] = "decode_err" /\ st[d] = "Closed" /\ nresp[d] >= 1

\* C10: error isolation.  The step on which a handler ends with a framing,
\* decode or send error changes neither the store nor anything of another
\* connection.
AllErrors == {"frame_err", "decode_err", "send_err"}
C10_ErrorIsolation ==
    [][\A c \in Conns :
         (ended[c] = "none" /\ ended'[c] \in AllErrors)
         => /\ store' = store
            /\ \A d \in Conns \ {c} :
                 /\ st'[d] = st[d]
                 /\ req'[d] = req[d]
                 /\ resp'[d] = resp[d]
                 /\ copied'[d] = copied[d]
                 /\ nreq'[d] = nreq[d]
                 /\ nresp'[d] = nresp[d]
                 /\ ended'[d] = ended[d]]_vars

\* A handler ended on a decode error while the store held a value, and
\* another connection is then answered that value.
C10_Witness ==
    \E c, d \in Conns :
        /\ ended[c] = "decode_err"
        /\ Sending(d, "Get")
        /\ resp[d].code = 0
        /\ resp[d].value \in FullValues

\* C11: misses and unset commands are not fatal.  When the answer with code
\* 404 or 500 has been written, the handler is Reading again, still running,
\* with one more response written.
C11_MissNotFatal ==
    [][\A c \in Conns :
         (/\ st[c] = "Writing"
          /\ resp[c].code \in {404, 500}
          /\ st'[c] # "Writing"
          /\ ended'[c] # "send_err")
         => /\ st'[c] = "Reading"
            /\ ended'[c] = "none"
            /\ nresp'[c] = nresp[c] + 1]_vars

\* The only connection that has sent anything had a Del of a key never Put
\* as its first request (answered 404) and is answered code 0 for the Put
\* that is its second.
C11_Witness ==
    \E c \in Conns :
        /\ Sending(c, "Put")
        /\ nreq[c] = 2 /\ nresp[c] = 1
        /\ resp[c].code = 0
        /\ \A d \in Conns \ {c} : nreq[d] = 0
        /\ \E k \in Keys \ {req[c].key} : lastOp[k].op = "del" /\ everPut[k] = {}

\* C12: one shared store.  A Get that is the first request of its connection,
\* answered while the latest Put or Del dispatched on its key is a Put(k, v)
\* (which another connection issued, whatever became of that connection), is
\* answered {code: 0, key: k, value: v}.
C12_SharedStore ==
    [][\A c \in Conns :
         (/\ Answers(c)
          /\ req[c].op = "Get"
          /\ nreq[c] = 1
          /\ lastOp[req[c].key].op = "put")
         => /\ resp'[c].code = 0
            /\ resp'[c].value = lastOp[req[c].key].value]_vars

\* A connection whose first request is a Get is answered a full value after
\* every other connection has closed.
C12_Witness ==
    \E c \in Conns :
        /\ Sending(c, "Get")
        /\ nreq[c] = 1
        /\ resp[c].code = 0
        /\ resp[c].value \in FullValues
        /\ \A d \in Conns \ {c} : st[d] = "Closed"

\* C13: Puts on distinct keys.  Every Put is answered with code 0, and every
\* key whose latest Put or Del is a Put(k, v) is in the store with value v,
\* whatever was Put on other keys and in whatever interleaving.
C13_DistinctPuts ==
    /\ \A c \in Conns : Sending(c, "Put") => resp[c].code = 0
    /\ \A k \in AllKeys :
         lastOp[k].op = "put" => (k \in DOMAIN store /\ store[k] = lastOp[k].value)

\* Two connections, each with a Put of a full value on a key of its own as
\* first request, are both being answered and the store holds both values.
C13_Witness ==
    \E c, d \in Conns :
        /\ Sending(c, "Put") /\ Sending(d, "Put")
        /\ nreq[c] = 1 /\ nreq[d] = 1
        /\ req[c].key # req[d].key
        /\ req[c].value \in FullValues /\ req[d].value \in FullValues
        /\ req[c].key \in DOMAIN store /\ store[req[c].key] = req[c].value
        /\ req[d].key \in DOMAIN store /\ store[req[d].key] = req[d].value

\* C15: dispatch is total and never panics.  A handler is in one of the
\* states of its loop and never panicked; a request being dispatched has a
\* command some arm of the match takes; the Response being sent encodes to
\* bytes that decode to it.
HandlerStates == {"Idle", "Reading", "Dispatching", "Copying", "Writing", "Closed"}
C15_DispatchTotal ==
    \A c \in Conns :
        /\ st[c] \in HandlerStates
        /\ st[c] = "Dispatching" => req[c].op \in {"Get", "Put", "Del", "None"}
        /\ st[c] = "Writing" =>
              /\ resp[c].code \in {0, 404, 500}
              /\ DecodeResponse(EncodeResponse(resp[c])) = [ok |-> TRUE, resp |-> resp[c]]

\* A request without a command and a Put are both being answered.
C15_Witness ==
    \E c, d \in Conns :
        /\ Sending(c, "None") /\ resp[c].code = 500
        /\ Sending(d, "Put") /\ resp[d].value \in FullValues

\* C14: the scenario.  On a fresh server where no other client touches
\* "hello" or "world", the n-th response sent to the client that issues
\* Put("hello","world"), Get("hello"), Get("world"), Del("hello"),
\* Get("hello") is the n-th of {0,hello,world}, {0,hello,world},
\* {404,world,""}, {0,hello,world}, {404,hello,""}.
Expected ==
    <<[code |-> 0, key |-> Hello, value |-> World],
      [code |-> 0, key |-> Hello, value |-> World],
      [code |-> 404, key |-> World, value |-> <<>>],
      [code |-> 0, key |-> Hello, value |-> World],
      [code |-> 404, key |-> Hello, value |-> <<>>]>>
C14_Scenario ==
    st[ClientConn] = "Writing" => resp[ClientConn] = Expected[nreq[ClientConn]]

\* The fifth response is being sent after the other four, while another
\* client has had a Put answered.
C14_Witness ==
    /\ st[ClientConn] = "Writing"
    /\ nreq[ClientConn] = 5 /\ nresp[ClientConn] = 4
    /\ \E d \in Conns \ {ClientConn}, k \in Keys :
          nresp[d] > 0 /\ lastOp[k].op = "put"

\* C16: a handler whose peer has disconnected, or whose socket has failed,
\* is eventually Closed, whether it was waiting to read or writing a response.
C16_DisconnectCloses ==
    \A c \in Conns : (peer[c] = "gone") ~> (st[c] = "Closed")

\* One handler ended by a failed write and another by a read that found the
\* stream ended, each after its peer had gone.
C16_Witness ==
    \E c, d \in Conns :
        /\ peer[c] = "gone" /\ st[c] = "Closed" /\ ended[c] = "send_err"
        /\ peer[d] = "gone" /\ st[d] = "Closed" /\ ended[d] \in {"eof", "frame_err"}

\* C17: wire round trip.  A Request or Response whose encoding fits the
\* frame limit is framed, the frame read back holds the encoded payload
\* unchanged, and decoding it gives a value equal to the original.
C17_RoundTrip ==
    /\ cpc \notin {"too_big", "frame_failed", "decode_failed"}
    /\ cpc = "unframed" =>
          cbytes = IF cmsg.kind = "request" THEN EncodeRequest(AsRequest(cmsg))
                   ELSE EncodeResponse(AsResponse(cmsg))
    /\ cpc = "decoded" => cback = cmsg

\* The response {0, hello, world} has been through the round trip.
C17_Witness ==
    /\ cpc = "decoded"
    /\ cmsg = ResponseMessage([code |-> 0, key |-> Hello, value |-> World])
    /\ cback = cmsg

\* C19: actor calls are serialized.  The requests handled so far are, in
\* order and each once, the first requests put in the mailbox; the one being
\* handled and those waiting follow in mailbox order; the reply to the n-th
\* handled request is the handler's result on the state left by the n-1
\* before it; and a caller whose call has been answered holds that reply.
RECURSIVE StateAfter(_, _)
StateAfter(log, n) ==
    IF n = 0 THEN 0 ELSE HandleCall(StateAfter(log, n - 1), log[n].data).state
CallOf(e) == [from |-> e.from, data |-> e.data]
InHand == IF handling = NoCall THEN <<>> ELSE <<handling>>
C19_ActorSerialized ==
    /\ sentOrder = [i \in 1..Len(handledLog) |-> CallOf(handledLog[i])] \o InHand \o mailbox
    /\ \A i \in 1..Len(handledLog) :
          handledLog[i].reply =
              HandleCall(StateAfter(handledLog, i - 1), handledLog[i].data).reply
    /\ actorState = StateAfter(handledLog, Len(handledLog))
    /\ \A p \in DOMAIN callerPc :
          callerPc[p] = "replied" =>
             \E i \in 1..Len(handledLog) :
                /\ handledLog[i].from = p
                /\ handledLog[i].reply = callerReply[p]
                /\ \A j \in (i + 1)..Len(handledLog) : handledLog[j].from # p

\* "+1", "+1", "-1" sent through clones of the Pid held by different tasks
\* have been answered 1, 2, 1.
C19_Witness ==
    /\ Len(handledLog) = 3
    /\ [i \in 1..3 |-> <<handledLog[i].data, handledLog[i].reply>>]
          = << <<"+1", 1>>, <<"+1", 2>>, <<"-1", 1>> >>
    /\ \E p, q \in DOMAIN callerPc : p # q /\ handledLog[1].from = p /\ handledLog[2].from = q
    /\ \A p \in DOMAIN callerPc : callerPc[p] = "idle"

\* C20: ticket conservation.  tickets() plus the number of Tickets not yet
\* dropped is always the total; a get_ticket answers None when tickets() is
\* 0 and only then, and otherwise hands out one ticket; a drop makes one
\* more ticket available.
C20_TicketConservation ==
    /\ [](remaining_tickets + liveTickets = total)
    /\ [][/\ lastTicket' = "None" => remaining_tickets = 0
          /\ lastTicket' = "Some" =>
                /\ remaining_tickets > 0
                /\ remaining_tickets' = remaining_tickets - 1
                /\ liveTickets' = liveTickets + 1
          /\ lastTicket' = "freed" =>
                /\ remaining_tickets' = remaining_tickets + 1
                /\ liveTickets' = liveTickets - 1]_ticketVars

\* The Meseum of the test is sold out: ten Tickets are held and the latest
\* get_ticket was refused.
C20_Witness ==
    /\ total = MaxTotal
    /\ remaining_tickets = 0
    /\ liveTickets = MaxTotal
    /\ lastTicket = "None"

\* C21: the connection state machine.  A handler starts in Reading on accept
\* and moves only from Reading to Dispatching, from Dispatching to Writing,
\* from Writing to Reading, and from any of these to Closed; a Closed handler
\* stays Closed, decodes no request and writes no response, and any change
\* of the store is the dispatch step of a handler that is not Closed.
Phase(s) == IF s = "Copying" THEN "Dispatching" ELSE s
Transitions ==
    {<<"Idle", "Reading">>, <<"Reading", "Dispatching">>,
     <<"Dispatching", "Writing">>, <<"Writing", "Reading">>,
     <<"Reading", "Closed">>, <<"Dispatching", "Closed">>, <<"Writing", "Closed">>}
C21_StateMachine ==
    [][/\ \A c \in Conns :
            /\ Phase(st'[c]) # Phase(st[c]) =>
                  <<Phase(st[c]), Phase(st'[c])>> \in Transitions
            /\ st[c] = "Closed" =>
                  /\ st'[c] = "Closed"
                  /\ nreq'[c] = nreq[c] /\ nresp'[c] = nresp[c]
                  /\ req'[c] = req[c] /\ resp'[c] = resp[c]
       /\ store' # store =>
             \E d \in Conns : st[d] = "Dispatching" /\ st'[d] = "Writing"]_vars

\* A handler that answered two requests and found the stream ended is
\* Closed while the other handler is sending a response.
C21_Witness ==
    \E c, d \in Conns :
        /\ st[c] = "Closed" /\ ended[c] = "eof" /\ nresp[c] = 2
        /\ st[d] = "Writing" /\ nreq[d] = 2

\* C24: the store is empty at startup and is changed only by the dispatch of
\* a Put, which inserts its key, and of a Del of a key that is present, which
\* removes it; every other step leaves it as it is.
C24_OnlyPutDelMutate ==
    /\ store = <<>>
    /\ [][store' # store =>
            \E c \in Conns :
                /\ st[c] = "Dispatching" /\ st'[c] = "Writing"
                /\ \/ /\ req[c].op = "Put"
                      /\ store' = Insert(store, req[c].key, req[c].value)
                   \/ /\ req[c].op = "Del"
                      /\ req[c].key \in DOMAIN store
                      /\ store' = Remove(store, req[c].key)]_vars

\* With a full value in the store, one handler is answering a Get that
\* missed and another has ended on a payload that did not decode.
C24_Witness ==
    \E c, d \in Conns, k \in Keys :
        /\ k \in DOMAIN store /\ store[k] \in FullValues
        /\ Sending(c, "Get") /\ resp[c].code = 404
        /\ st[d] = "Closed" /\ ended[d] = "decode_err"

\* C26: concurrent Del of one key.  When two handlers are dispatching Del(k)
\* and the store maps k to v, the one that answers first is answered
\* {code: 0, key: k, value: v}, k is gone and the other is still
\* dispatching; and a handler that answers its Del(k) while the other's
\* winning response is still being sent, k not having been Put again, is
\* answered {code: 404, key: k, value: empty}.
C26_OneDelWins ==
    [][\A c, d \in Conns :
         /\ (/\ c # d
             /\ st[c] = "Dispatching" /\ st[d] = "Dispatching"
             /\ req[c].op = "Del" /\ req[d] = req[c]
             /\ req[c].key \in DOMAIN store
             /\ Answers(c))
            => /\ resp'[c] = [code |-> 0, key |-> req[c].key,
                              value |-> store[req[c].key]]
               /\ req[c].key \notin DOMAIN store'
               /\ st'[d] = "Dispatching" /\ req'[d] = req[d]
         /\ (/\ c # d
             /\ Sending(c, "Del") /\ resp[c].code = 0
             /\ st[d] = "Dispatching" /\ req[d] = req[c]
             /\ req[d].key \notin DOMAIN store
             /\ Answers(d))
            => resp'[d] = [code |-> 404, key |-> req[d].key, value |-> <<>>]]_vars

\* Two Dels of one key are being answered at once, one with the full value
\* and the other as a miss.
C26_Witness ==
    \E c, d \in Conns :
        /\ c # d
        /\ Sending(c, "Del") /\ Sending(d, "Del")
        /\ req[c].key = req[d].key
        /\ resp[c].code = 0 /\ resp[c].value \in FullValues
        /\ resp[d] = [code |-> 404, key |-> req[d].key, value |-> <<>>]

\* C27: no rollback.  The step in which writing a response fails leaves the
\* store as it is, and the store always holds what the Puts and Dels
\* dispatched made of it, whether or not their responses were written.
C27_NoRollback ==
    /\ [][\A c \in Conns :
            (st[c] = "Writing" /\ ended'[c] = "send_err") => store' = store]_vars
    /\ [](\A k \in AllKeys :
            /\ lastOp[k].op = "put" => (k \in DOMAIN store /\ store[k] = lastOp[k].value)
            /\ lastOp[k].op = "del" => k \notin DOMAIN store)

\* A connection whose only request was answered by a write that failed is
\* Closed, and the other connection, whose first request is a Get, is
\* answered the full value that only the closed one can have Put.
C27_Witness ==
    \E c, d \in Conns :
        /\ c # d
        /\ st[c] = "Closed" /\ ended[c] = "send_err" /\ nreq[c] = 1 /\ nresp[c] = 0
        /\ Sending(d, "Get") /\ nreq[d] = 1
        /\ resp[d].code = 0 /\ resp[d].value \in FullValues
        /\ \A e \in Conns \ {c, d} : nreq[e] = 0

\* C22: independent progress.  A connection whose request has been decoded
\* and whose peer reads gets its response written, or its socket fails,
\* whatever the other connections do: stay silent, stop mid-frame, or never
\* read what is sent to them.
C22_IndependentProgress ==
    \A c \in Conns :
        (st[c] \in {"Dispatching", "Copying"} /\ peer[c] = "up")
        ~> (st[c] \in {"Reading", "Closed"} \/ peer[c] # "up")

\* The second response of a connection has been written while another
\* connection, whose peer stalled, is still in the write of its first.
C22_Witness ==
    \E c, d \in Conns :
        /\ peer[c] = "up" /\ st[c] = "Reading" /\ nresp[c] = 2
        /\ peer[d] = "stalled" /\ st[d] = "Writing" /\ nresp[d] = 0

\* C23: no suspension while holding the store.  A handler holds a Ref into
\* the store only inside the Get arm: none while it waits for a frame or
\* writes a response, and the step that forms the response releases what
\* the dispatch took.
C23_NoRefAcrossAwait ==
    /\ [](\A c \in Conns : ref[c] # {} => st[c] = "Copying")
    /\ [][\A c \in Conns : Answers(c) => ref'[c] = {}]_vars

\* While the response to a Get that hit is being written, a Put on the same
\* key by another handler can take the write lock.
C23_Witness ==
    \E c, d \in Conns :
        /\ Sending(c, "Get") /\ resp[c].code = 0 /\ resp[c].value \in FullValues
        /\ ref[c] = {}
        /\ st[d] = "Dispatching" /\ req[d].op = "Put" /\ req[d].key = req[c].key
        /\ WriteLockFree(req[d].key)

\* C28: the accept loop has a single exit.  A connection is accepted only
\* while main is in its loop, and while it is there every connection not yet
\* accepted can be; main leaves the loop only by returning, in a step that
\* is no step of a handler, and once it has returned it stays returned.
C28_AcceptLoopExit ==
    /\ [](mainPc = "accepting" =>
            \A c \in Conns : st[c] = "Idle" => ENABLED ServerAccept(c))
    /\ [][/\ \A c \in Conns :
               (st[c] = "Idle" /\ st'[c] # "Idle")
               => (mainPc = "accepting" /\ mainPc' = "accepting")
          /\ mainPc = "returned" => mainPc' = "returned"
          /\ mainPc' # mainPc =>
               /\ mainPc' = "returned"
               /\ st' = st /\ ended' = ended /\ store' = store]_vars

\* main has returned after a handler had a response written, with a
\* connection that was never accepted.
C28_Witness ==
    /\ mainPc = "returned"
    /\ \E c, d \in Conns : st[c] = "Idle" /\ nresp[d] > 0

\* C25: the client reads responses in request order.  The i-th response the
\* client has read is the server's response to the i-th request it sent:
\* {0,hello,world} to the Put, {0,hello,world} to Get(hello), {404,world,""}
\* to Get(world), {0,hello,world} to the Del.
C25_ClientOrder ==
    /\ Len(clientGot) <= Len(Script)
    /\ \A i \in 1..Len(clientGot) : clientGot[i] = Expected[i]

\* The client has read all four responses while another client has had a
\* response written.
C25_Witness ==
    /\ Len(clientGot) = 4
    /\ \E d \in Conns \ {ClientConn} : nresp[d] > 0

\* C30: client termination.  The client has sent all four requests before
\* it reads; it ends with an error only while sending; and it has returned
\* only if the server has closed its connection or the socket has failed, so
\* with the connection kept open it waits for a fifth response for ever.
C30_ClientTermination ==
    /\ (clientPc \in {"read", "done"} \/ clientGot # <<>>) =>
          clientSent = Len(Script)
    /\ clientPc = "failed" => clientSent < Len(Script)
    /\ clientPc = "done" => (st[ClientConn] = "Closed" \/ link = "broken")

\* The client has read four responses and waits, and the handler of its
\* connection waits for a request: neither can take a step.
C30_Witness ==
    /\ clientPc = "read" /\ Len(clientGot) = 4
    /\ st[ClientConn] = "Reading" /\ link = "open"
    /\ ~ENABLED ClientRead
    /\ ~ENABLED ClientServerRead(ClientConn)

\* The actor task has stopped: it has panicked, whether or not its receiver
\* has been dropped yet.
ActorStopped == handling \in {ActorUnwinding, ActorGone}

\* C29: Pid::send never hangs on a dead actor.  Once the actor task has
\* panicked, every call of Pid::send that has no reply yet, whether it still
\* waits for room in the channel, holds a permit, has its message queued or
\* in the actor's hand, or was issued after the panic, eventually returns an
\* error.
C29_DeadActorAnswers ==
    \A p \in Callers :
        (ActorStopped
            /\ callerPc[p] \in {"sending", "permitted", "waiting", "failed"})
            ~> (callerPc[p] = "idle_err")

\* The actor is dead and the caller whose request made it panic, having had
\* its error, waits for the reply to a second message, which lies in the
\* channel: no step of that caller is enabled.
C29_Witness ==
    /\ handling = ActorGone
    /\ \E p \in Callers :
         /\ callerPc[p] = "waiting" /\ callsMade[p] = 2
         /\ mailbox = <<[from |-> p, data |-> "+1"]>>
         /\ \A q \in Callers \ {p} : callsMade[q] = 0
         /\ ~ENABLED CallerWoken(p)

====
